---- MODULE Spec2Model ----
(***************************************************************************)
(* The file-intake pipeline of the image upload plugin                     *)
(* (src/src/file-handler.ts, src/src/cache.ts).                             *)
(*                                                                         *)
(* processFileCreate is an async function: it runs without interruption    *)
(* from one await to the next.  Every action below is the completion of    *)
(* one awaited operation together with the synchronous code that follows   *)
(* it, up to the next await.  Several calls of processFileCreate are in    *)
(* progress at once and interleave at these points.                         *)
(***************************************************************************)
EXTENDS Integers, Sequences, FiniteSets, TLC

VARIABLES
  settings,       \* the plugin settings consulted by the pipeline
  resetCalls,     \* how many times resetAutoUploadWarnings has been called
  store,          \* the vault adapter's files at cachePath and cachePath + '.tmp', entry by entry
  call,           \* the CloudinaryCache method that a caller awaits
  nCalls,         \* how many CloudinaryCache methods have been called
  got,            \* hash -> what the last getEntry or addEntry of that hash left
  arg,            \* the arguments of the helper function that is being called
  ret,            \* what that call has returned
  now,            \* Date.now(), in ms
  vault,          \* path -> [content, ctime]: the files of the vault
  doc,            \* the text of the active note: a set of reference tokens
  cacheFile,      \* the shared cache file (settings.cacheFilePath)
  tmpFile,        \* the temporary file of writeCache (cachePath + '.tmp')
  pluginCreatedFiles,  \* file-handler.ts:9
  createdTimers,  \* the pending setTimeout callbacks of markPluginCreatedPath
  uploadingPaths, \* (processFileCreate as any).uploadingPaths
  shownMissingAutoUploadWarning,  \* file-handler.ts:6
  att,            \* the calls of processFileCreate that passed the guards
  nAtt,           \* how many of them there are
  urlSeq,         \* how many URLs the remote has handed out
  editor,         \* the editor of the active note: "ok"; "throws" when its calls throw;
                  \* "readonly" when it has no setValue; "none" when no note is open
  triedAutoCreatePreset,         \* auto-create: let triedAutoCreatePreset
  shownAutoCreatePresetWarning,  \* auto-create: let shownAutoCreatePresetWarning
  hfc,            \* the calls of CloudinaryPlugin.handleFileCreate
  presetResets    \* how many times resetAutoCreatePresetState has been called

vars == <<settings, resetCalls, store, call, nCalls, got, arg, ret, now, vault, doc, cacheFile, tmpFile,
          pluginCreatedFiles, createdTimers, uploadingPaths,
          shownMissingAutoUploadWarning, att, nAtt, urlSeq, editor,
          triedAutoCreatePreset, shownAutoCreatePresetWarning, hfc, presetResets>>

\* what processFileCreate called on its own leaves alone: the editor's health,
\* the state of the auto-create module and the calls of handleFileCreate
session == <<editor, triedAutoCreatePreset, shownAutoCreatePresetWarning, hfc, presetResets>>

\* the cache object and the helper functions called on their own
helpers == <<store, call, nCalls, got, arg, ret>>

\* no helper function is being called
NoArg == [fn |-> "none"]
NoRet == [done |-> FALSE]

---------------------------------------------------------------------------
(* Bounds of the model *)

\* calls of processFileCreate that pass the guards, per behaviour
MaxEvents == 2
\* clock ticks per behaviour
MaxTicks == 2
\* calls of resetAutoUploadWarnings per behaviour
MaxResets == 1
MaxLen == 3
MaxTokens == 2

(* Constants of the program *)

\* file-handler.ts:59  if (fileAgeMs > 5000)
StartupAgeMs == 5000
\* file-handler.ts:39  setTimeout(..., 10000)
PluginCreatedTtlMs == 10000
\* file-handler.ts:206  setTimeout(..., 2000)
ReentryGraceMs == 2000
\* file-handler.ts:92  while (attempts < 30)
MaxPollAttempts == 30
\* part_008:348  const MAX_CONCURRENT_UPLOADS = 3
MAX_CONCURRENT_UPLOADS == 3
\* file-handler.ts:245  maxMB * 1024 * 1024
BytesPerMB == 1024 * 1024

\* the granularity of the model's clock, and the time of its first state
TickMs == StartupAgeMs
StartMs == TickMs
MaxNow == StartMs + MaxTicks * TickMs

---------------------------------------------------------------------------
(* Files, paths and contents *)

IMAGE_EXTENSIONS == {"png", "jpg", "jpeg", "gif", "webp", "svg"}

\* A vault-relative path: dir/base[-ts].ext.  dir is a sequence of characters
\* (empty at the vault root); ts is a timestamp suffix (0: none).
P(dir, base, ext) == [dir |-> dir, base |-> base, ts |-> 0, ext |-> ext]
NoPath == [dir |-> <<>>, base |-> "", ts |-> 0, ext |-> ""]

\* file.name and file.basename, as reference targets without a directory
NameOf(p) == [p EXCEPT !.dir = <<>>]
BaseOf(p) == [p EXCEPT !.dir = <<>>, !.ext = ""]

\* The bytes of a file are a content id; its length in bytes:
ByteLength(c) ==
  CASE c = "c1" -> BytesPerMB \div 2
    [] c = "c2" -> 5 * BytesPerMB
    [] c = "c3" -> BytesPerMB
    [] c = "c4" -> BytesPerMB + 1
    [] OTHER -> 0

\* computeSha1: the hex digest of the bytes (no two contents of the model collide)
computeSha1(c) ==
  CASE c = "c1" -> "356a19"
    [] c = "c2" -> "da4b92"
    [] c = "c3" -> "77de68"
    [] c = "c4" -> "1b6453"
    [] OTHER -> "da39a3"

Exists(p) == p \in DOMAIN vault
Remove(f, p) == [q \in (DOMAIN f) \ {p} |-> f[q]]

---------------------------------------------------------------------------
(* sanitizeFolderPath, on sequences of characters *)

Letters == {"a","b","c","d","e","f","g","h","i","j","k","l","m","n","o","p","q",
            "r","s","t","u","v","w","x","y","z","A","B","C","D","E","F","G","H",
            "I","J","K","L","M","N","O","P","Q","R","S","T","U","V","W","X","Y","Z"}
Seps == {"/", "\\"}

\* value.replace(/\\/g, '/')
NormalizeSlashes(s) == [i \in 1..Len(s) |-> IF s[i] = "\\" THEN "/" ELSE s[i]]

RECURSIVE StripLeading(_)
StripLeading(s) == IF s # <<>> /\ Head(s) \in Seps THEN StripLeading(Tail(s)) ELSE s
RECURSIVE StripTrailing(_)
StripTrailing(s) ==
  IF s # <<>> /\ s[Len(s)] \in Seps THEN StripTrailing(SubSeq(s, 1, Len(s) - 1)) ELSE s

\* s has a segment that is '..'
HasParentSegment(s) ==
  \E i \in 1..(Len(s) - 1) :
    /\ s[i] = "." /\ s[i + 1] = "."
    /\ (i = 1 \/ s[i - 1] \in Seps)
    /\ (i + 1 = Len(s) \/ s[i + 2] \in Seps)

\* a test that looks for '..' as a whole segment
InvalidFolderBySegment(s) ==
  \/ HasParentSegment(s)
  \/ Len(s) >= 3 /\ s[1] \in Letters /\ s[2] = ":" /\ s[3] \in Seps
  \/ Len(s) >= 1 /\ s[1] \in Seps

\* /\.\.|^[A-Za-z]:[/\\]|^[/\\]/.test(normalized)
InvalidFolder(s) ==
  \/ \E i \in 1..(Len(s) - 1) : s[i] = "." /\ s[i + 1] = "."
  \/ Len(s) >= 3 /\ s[1] \in Letters /\ s[2] = ":" /\ s[3] \in Seps
  \/ Len(s) >= 1 /\ s[1] \in Seps

\* [ok |-> FALSE] models the thrown Error('Invalid folder path')
sanitizeFolderPath(value) ==
  IF value = <<>> THEN [ok |-> TRUE, path |-> <<>>]
  ELSE LET normalized == NormalizeSlashes(value)
       IN IF InvalidFolder(normalized) THEN [ok |-> FALSE, path |-> <<>>]
          ELSE [ok |-> TRUE, path |-> StripTrailing(StripLeading(normalized))]

\* the fallback of processFileCreate when sanitizeFolderPath throws
LenientFolder(value) == StripTrailing(StripLeading(NormalizeSlashes(value)))

\* the folder processFileCreate works with
IntakeFolder(value) ==
  IF sanitizeFolderPath(value).ok THEN sanitizeFolderPath(value).path
  ELSE LenientFolder(value)

\* file-handler.ts:288-293: the values of currentPath in ensureFolderExists
FolderPrefixes(folder) ==
  {SubSeq(folder, 1, n) : n \in {m \in 1..Len(folder) :
                                   /\ folder[m] # "/"
                                   /\ (m = Len(folder) \/ folder[m + 1] = "/")}}

\* normalizedFilePath.startsWith(`${folder}/`)
StartsWithFolder(p, folder) ==
  /\ Len(p.dir) >= Len(folder)
  /\ SubSeq(p.dir, 1, Len(folder)) = folder
  /\ (Len(p.dir) = Len(folder) \/ p.dir[Len(folder) + 1] = "/")
  /\ p.dir # <<>>

---------------------------------------------------------------------------
(* The active note.  Its text is a set of reference tokens:                *)
(*   md   ![alt](target)      wiki  ![[target]]                            *)
(*   link [[target]]          text  a bare mention of the target           *)
(* A target is a path, a file name (no directory), a basename (no          *)
(* directory, no extension) or, with url # 0, a hosted URL.                *)

PathRef(kind, tgt) == [kind |-> kind, url |-> 0, tgt |-> tgt]
UrlRef(u) == [kind |-> "md", url |-> u, tgt |-> NoPath]

\* the target's text contains file.name (so also when it is file.path)
HasName(tgt, file) == tgt.ext # "" /\ NameOf(tgt) = NameOf(file)

\* file-handler.ts:101-110: the forms the reference check accepts
Referenced(d, file) ==
  \E t \in d :
    /\ t.url = 0
    /\ \/ HasName(t.tgt, file)
       \/ t.kind \in {"wiki", "link"} /\ t.tgt = BaseOf(file)

\* file-handler.ts:442-457: the occurrences markdownRegexes and wikiRegexes match
RegexMatches(t, file) ==
  /\ t.url = 0
  /\ \/ t.kind = "md" /\ HasName(t.tgt, file)
     \/ t.kind = "wiki" /\ t.tgt \in {file, NameOf(file), BaseOf(file)}

\* replaceImageReference: every matched occurrence becomes ![alt](replacement)
replaceImageReference(d, file, replacement) ==
  {IF RegexMatches(t, file) THEN replacement ELSE t : t \in d}

---------------------------------------------------------------------------
(* The shared cache file: [ex |-> does it exist, map |-> hash -> url] *)

EmptyMap == [h \in {} |-> 0]
NoFile == [ex |-> FALSE, map |-> EmptyMap]

\* a cache that is never found on disk
readCacheMissing == EmptyMap

\* CloudinaryCache.readCache: {} when the file does not exist
readCache == IF cacheFile.ex THEN cacheFile.map ELSE EmptyMap

---------------------------------------------------------------------------
(* One call of processFileCreate *)

Idle ==
  [file |-> NoPath, pc |-> "idle", attempts |-> 0, data |-> "", fileHash |-> "",
   uploadedUrl |-> 0, fromCache |-> FALSE, newUrl |-> 0, mem |-> EmptyMap,
   folder |-> <<>>, localFile |-> NoPath, dest |-> NoPath, releaseAt |-> 0,
   \* what the call has done so far
   reads |-> 0, uploadCalls |-> 0, creates |-> {}, createdFolders |-> {},
   edits |-> 0, deleteCalls |-> 0, notes |-> <<>>,
   \* what the catch of processFileCreate has caught; has the call rejected
   caught |-> "", rejected |-> FALSE]

Slots == DOMAIN att
Active(i) == att[i].pc \notin {"idle", "done", "released"}

Notify(a, msg) == [a EXCEPT !.notes = Append(@, msg)]

\* a finally block that sets no timer
FinallyNoTimer(a) ==
  [a EXCEPT !.pc = "released", !.attempts = 0,
            !.data = "", !.newUrl = 0, !.mem = EmptyMap, !.folder = <<>>, !.dest = NoPath]

\* file-handler.ts:204-207: the finally block (the locals of the call are gone)
Finally(a) ==
  [a EXCEPT !.pc = "done", !.releaseAt = now + ReentryGraceMs, !.attempts = 0,
            !.data = "", !.newUrl = 0, !.mem = EmptyMap, !.folder = <<>>, !.dest = NoPath]

\* a try with a finally and no catch: the exception leaves processFileCreate
ThrowOnwards(a, what) == [Finally(a) EXCEPT !.rejected = TRUE]

\* file-handler.ts:202-207: an exception thrown inside the try: the catch logs
\* it (with debugLogs), the finally block runs, processFileCreate returns
Throw(a, what) == Finally([a EXCEPT !.caught = what])

\* a test that does not compare the two paths
DeleteSourceAnyPath(url, localFile, file) ==
  /\ settings.deleteSourceAfterUpload
  /\ url # 0
  /\ (~settings.localCopyEnabled \/ localFile # NoPath)

\* file-handler.ts:191-193: is the source file to be deleted
DeleteSource(url, localFile, file) ==
  /\ settings.deleteSourceAfterUpload
  /\ url # 0
  /\ (~settings.localCopyEnabled \/ localFile # NoPath)
  /\ file # localFile

\* file-handler.ts:96-98: the reference check reads the note when there is
\* an active view with an editor
Seen(p) == editor \in {"ok", "readonly"} /\ Referenced(doc, p)

\* file-handler.ts:427-428: replaceImageReference goes on when there is an
\* active view with an editor that has a setValue function
Writable == editor = "ok"

\* a replacement that calls setValue without a look at the editor
FinishUnchecked(i, a) ==
  IF a.uploadedUrl # 0 \/ a.localFile # NoPath
  THEN /\ doc' = doc
       /\ att' = [att EXCEPT ![i] = Throw(a, "editor")]
  ELSE /\ doc' = doc
       /\ att' = [att EXCEPT ![i] = Finally(a)]

\* a replacement that prefers the local copy to the URL
FinishCopyFirst(i, a) ==
  LET url == a.uploadedUrl
      lf == a.localFile
      d2 == IF lf # NoPath THEN replaceImageReference(doc, a.file, PathRef("md", lf))
            ELSE IF url # 0 THEN replaceImageReference(doc, a.file, UrlRef(url))
            ELSE doc
      a1 == [a EXCEPT !.edits = @ + (IF d2 # doc THEN 1 ELSE 0)]
  IN /\ doc' = d2
     /\ att' = [att EXCEPT ![i] =
                  IF DeleteSource(url, lf, a.file)
                  THEN [a1 EXCEPT !.pc = "deleting", !.deleteCalls = @ + 1]
                  ELSE Finally(a1)]

\* file-handler.ts:177-207: reference replacement, source deletion, finally
Finish(i, a) ==
  LET url == a.uploadedUrl
      lf == a.localFile
      d1 == IF url # 0 THEN replaceImageReference(doc, a.file, UrlRef(url))
            ELSE IF lf # NoPath THEN replaceImageReference(doc, a.file, PathRef("md", lf))
            ELSE doc
      d2 == IF url # 0 /\ lf # NoPath THEN replaceImageReference(d1, lf, UrlRef(url))
            ELSE d1
      a1 == [a EXCEPT !.edits = @ + (IF d1 # doc THEN 1 ELSE 0) + (IF d2 # d1 THEN 1 ELSE 0)]
  IN IF editor = "throws" /\ (url # 0 \/ lf # NoPath)
     THEN \* file-handler.ts:427-430: the first replaceImageReference throws
          /\ doc' = doc
          /\ att' = [att EXCEPT ![i] = Throw(a, "editor")]
     ELSE LET a2 == IF Writable THEN a1 ELSE a
          IN /\ doc' = IF Writable THEN d2 ELSE doc
             /\ att' = [att EXCEPT ![i] =
                          IF DeleteSource(url, lf, a.file)
                          THEN [a2 EXCEPT !.pc = "deleting", !.deleteCalls = @ + 1]
                          ELSE Finally(a2)]

\* file-handler.ts:137-153: the local-copy step, up to the await of findExistingIllustration
LocalStage(i, a) ==
  IF settings.localCopyEnabled /\ settings.localCopyFolder # <<>>
       /\ IntakeFolder(settings.localCopyFolder) # <<>>
  THEN /\ att' = [att EXCEPT ![i] =
                    [a EXCEPT !.pc = "scan", !.folder = IntakeFolder(settings.localCopyFolder)]]
       /\ doc' = doc
  ELSE Finish(i, a)

\* a size check that turns away a file of exactly the limit
ExceedsSizeLimitInclusive(maxMB, byteLength) ==
  maxMB > 0 /\ byteLength >= maxMB * BytesPerMB

\* file-handler.ts:245
ExceedsSizeLimit(maxMB, byteLength) == maxMB > 0 /\ byteLength > maxMB * BytesPerMB

\* an upload that, when it is skipped, ends the call
UploadGateEnds(i, a) ==
  LET canUnsigned == settings.uploadPreset
      canSigned == settings.signed
  IN IF ~canUnsigned /\ ~canSigned
     THEN /\ shownMissingAutoUploadWarning' = TRUE
          /\ Finish(i, IF shownMissingAutoUploadWarning THEN a ELSE Notify(a, "missing"))
     ELSE IF ExceedsSizeLimit(settings.maxAutoUploadSizeMB, ByteLength(a.data))
     THEN /\ UNCHANGED shownMissingAutoUploadWarning
          /\ Finish(i, Notify(a, "size"))
     ELSE /\ UNCHANGED <<shownMissingAutoUploadWarning, doc>>
          /\ att' = [att EXCEPT ![i] =
                       [Notify(a, "start") EXCEPT !.pc = "uploading", !.uploadCalls = @ + 1]]

\* file-handler.ts:234-261: handleUpload after the cache check, up to the await of upload
UploadGate(i, a) ==
  LET canUnsigned == settings.uploadPreset
      canSigned == settings.signed
  IN IF ~canUnsigned /\ ~canSigned
     THEN /\ shownMissingAutoUploadWarning' = TRUE
          /\ LocalStage(i, IF shownMissingAutoUploadWarning THEN a ELSE Notify(a, "missing"))
     ELSE IF ExceedsSizeLimit(settings.maxAutoUploadSizeMB, ByteLength(a.data))
     THEN /\ UNCHANGED shownMissingAutoUploadWarning
          /\ LocalStage(i, Notify(a, "size"))
     ELSE /\ UNCHANGED <<shownMissingAutoUploadWarning, doc>>
          /\ att' = [att EXCEPT ![i] =
                       [Notify(a, "start") EXCEPT !.pc = "uploading", !.uploadCalls = @ + 1]]

\* an upload that asks for auto-upload or for a cloud name
AfterHashEither(i, a) ==
  IF settings.autoUploadOnFileAdd \/ settings.cloudName
  THEN IF settings.cacheFilePath
       THEN /\ UNCHANGED <<shownMissingAutoUploadWarning, doc>>
            /\ att' = [att EXCEPT ![i] = [a EXCEPT !.pc = "cacheGet"]]
       ELSE UploadGate(i, a)
  ELSE /\ UNCHANGED shownMissingAutoUploadWarning
       /\ LocalStage(i, a)

\* file-handler.ts:128-135, 220-232: after the hash, up to the await of getEntry
AfterHash(i, a) ==
  IF settings.autoUploadOnFileAdd /\ settings.cloudName
  THEN IF settings.cacheFilePath
       THEN /\ UNCHANGED <<shownMissingAutoUploadWarning, doc>>
            /\ att' = [att EXCEPT ![i] = [a EXCEPT !.pc = "cacheGet"]]
       ELSE UploadGate(i, a)
  ELSE /\ UNCHANGED shownMissingAutoUploadWarning
       /\ LocalStage(i, a)

\* a success that is notified twice
UploadReturnsTwice(i, a) ==
  LocalStage(i, [Notify(Notify(a, "ok"), "ok") EXCEPT !.uploadedUrl = a.newUrl])

\* file-handler.ts:278-279: the upload has succeeded and the cache is updated
UploadReturns(i, a) ==
  LocalStage(i, [Notify(a, "ok") EXCEPT !.uploadedUrl = a.newUrl])

---------------------------------------------------------------------------
(* The vault of the runs checked *)

Notes == <<"n">>
Assets == <<"a">>

\* the images the user has just dropped into the notes folder as the session
\* starts: x and y hold the same bytes under different names, w holds other,
\* larger bytes
StartFiles ==
  (P(Notes, "x", "png") :> "c1") @@ (P(Notes, "y", "png") :> "c1")
    @@ (P(Notes, "w", "png") :> "c2")

\* a file the user may have dropped into the local-copy folder as well: it has
\* the name of w and the bytes of x and y
FolderFiles == (P(Assets, "w", "png") :> "c1")

\* two images with different bytes
LoopFiles == (P(Notes, "x", "png") :> "c1") @@ (P(Notes, "w", "png") :> "c2")

\* four images of four sizes, dropped together
BurstFiles ==
  (P(Notes, "x", "png") :> "c1") @@ (P(Notes, "w", "png") :> "c2")
    @@ (P(Notes, "u", "png") :> "c3") @@ (P(Notes, "v", "png") :> "c4")

\* two images with the name of w and different bytes, in two folders
Inbox == <<"m">>
NamesakeFiles == (P(Notes, "w", "png") :> "c2") @@ (P(Inbox, "w", "png") :> "c3")

\* two images with different bytes, both below the size limit
SmallFiles == (P(Notes, "x", "png") :> "c1") @@ (P(Notes, "u", "png") :> "c3")

\* a note that embeds the given files, by path or by name
Embeds(byPath, byName) ==
  {PathRef("md", p) : p \in byPath} \cup {PathRef("wiki", NameOf(p)) : p \in byName}

\* what the user may type into the note: a link to w
TypedRefs == {PathRef("md", NameOf(P(Notes, "w", "png")))}

---------------------------------------------------------------------------
(* Actions *)

\* a marking that starts the timer and leaves the set as it is
markTimerOnly(path) ==
  /\ pluginCreatedFiles' = pluginCreatedFiles
  /\ createdTimers' = createdTimers \cup {[path |-> path, at |-> now + PluginCreatedTtlMs]}

\* file-handler.ts:35-40
markPluginCreatedPath(path) ==
  /\ pluginCreatedFiles' = pluginCreatedFiles \cup {path}
  /\ createdTimers' = createdTimers \cup {[path |-> path, at |-> now + PluginCreatedTtlMs]}

\* file-handler.ts:57-59: const fileAgeMs = now - (file.stat?.ctime || now)
FileAgeMs(ctime) == now - (IF ctime # 0 THEN ctime ELSE now)

\* a startup protection with twice the age
IsOldFileTwice(ctime) == FileAgeMs(ctime) > 2 * StartupAgeMs

\* file-handler.ts:59
IsOldFile(ctime) == FileAgeMs(ctime) > StartupAgeMs

\* a re-entry test that holds only while a call for the path is running
InFlightWhileRunning(p) == \E i \in Slots : Active(i) /\ att[i].file = p

\* file-handler.ts:79: the re-entry test
InFlight(p) == p \in uploadingPaths

\* file-handler.ts:52-83: the guards a file-created event meets, in order
GuardsFor(p, ctime) ==
  IF p.ext = "" \/ p.ext \notin IMAGE_EXTENSIONS THEN "ext"
  ELSE IF IsOldFile(ctime) THEN "old"
  ELSE IF p \in pluginCreatedFiles THEN "loop"
  ELSE IF InFlight(p) THEN "inflight"
  ELSE "admitted"

\* the guards, for a file of the vault
GuardOutcome(p) == GuardsFor(p, vault[p].ctime)

\* A file-created event for p that a guard turns away: processFileCreate
\* returns, and nothing has changed
FileCreateSkipped(p) ==
  /\ Exists(p)
  /\ GuardOutcome(p) # "admitted"
  /\ UNCHANGED vars

\* A file-created event for p that passes the guards: file-handler.ts:83-117,
\* up to the first await (the first look at the active note included)
FileCreateAdmitted(p) ==
  /\ Exists(p)
  /\ GuardOutcome(p) = "admitted"
  /\ nAtt < Len(att)
  /\ nAtt' = nAtt + 1
  /\ uploadingPaths' = uploadingPaths \cup {p}
  /\ att' = [att EXCEPT ![nAtt + 1] =
               IF editor = "throws"
               THEN Throw([Idle EXCEPT !.file = p], "editor")
               ELSE IF Seen(p)
               THEN [Idle EXCEPT !.file = p, !.pc = "read"]
               ELSE [Idle EXCEPT !.file = p, !.pc = "sleep", !.attempts = 1]]
  /\ UNCHANGED <<session, settings, resetCalls, store, call, nCalls, got, arg, ret, now, vault, doc, cacheFile, tmpFile,
                 pluginCreatedFiles, createdTimers, shownMissingAutoUploadWarning, urlSeq>>

\* a reference wait that looks once more
PollWakeOnceMore(i) ==
  /\ att[i].pc = "sleep"
  /\ att' = [att EXCEPT ![i] =
       IF att[i].attempts <= MaxPollAttempts
       THEN IF Seen(att[i].file)
            THEN [@ EXCEPT !.pc = "read", !.attempts = 0]
            ELSE [@ EXCEPT !.attempts = @ + 1]
       ELSE Finally(@)]
  /\ UNCHANGED <<session, settings, resetCalls, store, call, nCalls, got, arg, ret, now, vault, doc, cacheFile, tmpFile,
                 pluginCreatedFiles, createdTimers, uploadingPaths,
                 shownMissingAutoUploadWarning, nAtt, urlSeq>>

\* file-handler.ts:92-123: the 100 ms sleep of the reference wait is over
\* (attempts, unused once the loop is left, is forgotten then)
PollWake(i) ==
  /\ att[i].pc = "sleep"
  /\ att' = [att EXCEPT ![i] =
       IF att[i].attempts < MaxPollAttempts
       THEN IF editor = "throws"
            THEN Throw(@, "editor")
            ELSE IF Seen(att[i].file)
            THEN [@ EXCEPT !.pc = "read", !.attempts = 0]
            ELSE [@ EXCEPT !.attempts = @ + 1]
       ELSE Finally(@)]
  /\ UNCHANGED <<session, settings, resetCalls, store, call, nCalls, got, arg, ret, now, vault, doc, cacheFile, tmpFile,
                 pluginCreatedFiles, createdTimers, uploadingPaths,
                 shownMissingAutoUploadWarning, nAtt, urlSeq>>

\* file-handler.ts:125-135: readBinary and computeSha1 have returned
\* (readBinary throws when the file is gone: catch, finally)
ReadDone(i) ==
  /\ att[i].pc = "read"
  /\ IF Exists(att[i].file)
     THEN AfterHash(i, [att[i] EXCEPT !.data = vault[att[i].file].content,
                                      !.fileHash = computeSha1(vault[att[i].file].content),
                                      !.reads = @ + 1])
     ELSE /\ att' = [att EXCEPT ![i] = Throw([@ EXCEPT !.reads = @ + 1], "readBinary")]
          /\ UNCHANGED <<shownMissingAutoUploadWarning, doc>>
  /\ UNCHANGED <<session, settings, resetCalls, store, call, nCalls, got, arg, ret, now, vault, cacheFile, tmpFile,
                 pluginCreatedFiles, createdTimers, uploadingPaths, nAtt, urlSeq>>

\* a cache whose entries are never used
CacheGetMisses(i) ==
  /\ att[i].pc = "cacheGet"
  /\ UploadGate(i, att[i])
  /\ UNCHANGED <<session, settings, resetCalls, helpers, now, vault, cacheFile, tmpFile,
                 pluginCreatedFiles, createdTimers, uploadingPaths, nAtt, urlSeq>>

\* file-handler.ts:227-232: sharedCache.getEntry has returned
CacheGetDone(i) ==
  /\ att[i].pc = "cacheGet"
  /\ IF att[i].fileHash \in DOMAIN readCache
     THEN /\ LocalStage(i, [att[i] EXCEPT !.uploadedUrl = readCache[att[i].fileHash],
                                          !.fromCache = TRUE])
          /\ UNCHANGED shownMissingAutoUploadWarning
     ELSE UploadGate(i, att[i])
  /\ UNCHANGED <<session, settings, resetCalls, store, call, nCalls, got, arg, ret, now, vault, cacheFile, tmpFile,
                 pluginCreatedFiles, createdTimers, uploadingPaths, nAtt, urlSeq>>

\* file-handler.ts:261-269: uploader.upload has returned a URL
UploadOk(i) ==
  /\ att[i].pc = "uploading"
  /\ urlSeq' = urlSeq + 1
  /\ IF settings.cacheFilePath
     THEN /\ att' = [att EXCEPT ![i] = [@ EXCEPT !.pc = "addRead", !.newUrl = urlSeq + 1]]
          /\ UNCHANGED doc
     ELSE UploadReturns(i, [att[i] EXCEPT !.newUrl = urlSeq + 1])
  /\ UNCHANGED <<session, settings, resetCalls, store, call, nCalls, got, arg, ret, now, vault, cacheFile, tmpFile,
                 pluginCreatedFiles, createdTimers, uploadingPaths,
                 shownMissingAutoUploadWarning, nAtt>>

\* the messages of the errors that uploader.upload throws: a network error,
\* and the answer of the remote to a preset that does not allow unsigned upload
FailedToFetch == "Failed to fetch"
PresetNotUnsigned == "Upload failed: 400 Upload preset must be whitelisted for unsigned uploads"
UploadErrors == {FailedToFetch, PresetNotUnsigned}

\* file-handler.ts:282: `Upload failed: ${e.message || String(e)}`
FailNote(message) ==
  CASE message = FailedToFetch -> "fail"
    [] message = PresetNotUnsigned -> "fail: preset"
    [] OTHER -> "fail: other"

\* an upload that is tried once more when it throws
UploadRetried(i, message) ==
  /\ att[i].pc = "uploading"
  /\ att' = [att EXCEPT ![i] =
       IF @.uploadCalls < 2 THEN [@ EXCEPT !.uploadCalls = @ + 1]
       ELSE [Notify(@, FailNote(message)) EXCEPT !.pc = "done"]]
  /\ UNCHANGED <<session, settings, resetCalls, helpers, now, vault, doc, cacheFile, tmpFile,
                 pluginCreatedFiles, createdTimers, uploadingPaths,
                 shownMissingAutoUploadWarning, nAtt, urlSeq>>

\* file-handler.ts:261, 280-284: uploader.upload has thrown an error with this message
UploadThrows(i, message) ==
  /\ att[i].pc = "uploading"
  /\ LocalStage(i, Notify(att[i], FailNote(message)))
  /\ UNCHANGED <<session, settings, resetCalls, helpers, now, vault, cacheFile, tmpFile,
                 pluginCreatedFiles, createdTimers, uploadingPaths,
                 shownMissingAutoUploadWarning, nAtt, urlSeq>>

\* file-handler.ts:280-284: uploader.upload has thrown (a network error)
UploadFail(i) == UploadThrows(i, FailedToFetch)

\* cache.ts:107-110, 85-88: addEntry has read the cache and set cache[hash]
AddEntryRead(i) ==
  /\ att[i].pc = "addRead"
  /\ att' = [att EXCEPT ![i] =
       [@ EXCEPT !.pc = "wTmp", !.mem = (att[i].fileHash :> att[i].newUrl) @@ readCache]]
  /\ UNCHANGED <<session, settings, resetCalls, store, call, nCalls, got, arg, ret, now, vault, doc, cacheFile, tmpFile,
                 pluginCreatedFiles, createdTimers, uploadingPaths,
                 shownMissingAutoUploadWarning, nAtt, urlSeq>>

\* cache.ts:88: adapter.write(tempPath, content) has returned
WriteTemp(i) ==
  /\ att[i].pc = "wTmp"
  /\ tmpFile' = [ex |-> TRUE, map |-> att[i].mem]
  /\ att' = [att EXCEPT ![i] = [@ EXCEPT !.pc = "wRemove"]]
  /\ UNCHANGED <<session, settings, resetCalls, store, call, nCalls, got, arg, ret, now, vault, doc, cacheFile,
                 pluginCreatedFiles, createdTimers, uploadingPaths,
                 shownMissingAutoUploadWarning, nAtt, urlSeq>>

\* cache.ts:93: adapter.remove(cachePath) has returned (its error is swallowed)
RemovePrimary(i) ==
  /\ att[i].pc = "wRemove"
  /\ cacheFile' = NoFile
  /\ att' = [att EXCEPT ![i] = [@ EXCEPT !.pc = "wCopy"]]
  /\ UNCHANGED <<session, settings, resetCalls, store, call, nCalls, got, arg, ret, now, vault, doc, tmpFile,
                 pluginCreatedFiles, createdTimers, uploadingPaths,
                 shownMissingAutoUploadWarning, nAtt, urlSeq>>

\* cache.ts:94, 96-99: adapter.copy(tempPath, cachePath) has returned, or has
\* thrown because the temporary file is gone (catch: writeCache shows 'Error
\* saving Cloudinary cache' and returns)
CopyTemp(i) ==
  /\ att[i].pc = "wCopy"
  /\ IF tmpFile.ex
     THEN /\ cacheFile' = tmpFile
          /\ att' = [att EXCEPT ![i] = [@ EXCEPT !.pc = "wRmTmp"]]
          /\ UNCHANGED doc
     ELSE /\ UNCHANGED cacheFile
          /\ UploadReturns(i, Notify(att[i], "cacheError"))
  /\ UNCHANGED <<session, settings, resetCalls, store, call, nCalls, got, arg, ret, now, vault, tmpFile,
                 pluginCreatedFiles, createdTimers, uploadingPaths,
                 shownMissingAutoUploadWarning, nAtt, urlSeq>>

\* cache.ts:95, 96-99: adapter.remove(tempPath) has returned, or has thrown
\* because the temporary file is gone (the catch as above); addEntry returns
RemoveTemp(i) ==
  /\ att[i].pc = "wRmTmp"
  /\ tmpFile' = NoFile
  /\ UploadReturns(i, IF tmpFile.ex THEN att[i] ELSE Notify(att[i], "cacheError"))
  /\ UNCHANGED <<session, settings, resetCalls, store, call, nCalls, got, arg, ret, now, vault, cacheFile,
                 pluginCreatedFiles, createdTimers, uploadingPaths,
                 shownMissingAutoUploadWarning, nAtt, urlSeq>>

\* a scan that compares names where findExistingIllustration compares hashes
DuplicatesByName(folder, targetHash) ==
  {q \in DOMAIN vault : q.dir = folder /\ q.ext \in IMAGE_EXTENSIONS /\ q.base = targetHash}

\* file-handler.ts:359-369: the files of the folder that findExistingIllustration
\* can return: its direct children with an image extension and the target hash
Duplicates(folder, targetHash) ==
  {q \in DOMAIN vault : /\ q.dir = folder
                        /\ q.ext \in IMAGE_EXTENSIONS
                        /\ computeSha1(vault[q].content) = targetHash}

\* file-handler.ts:308-309: destPath = `${folder}/${file.name}`
DestPath(folder, file) == [file EXCEPT !.dir = folder]

\* file-handler.ts:324-325: the path with '-<timestamp>' before the extension
TimestampedPath(path) == [path EXCEPT !.ts = now]

\* file-handler.ts:153-166, 300-311: findExistingIllustration has returned; with no
\* duplicate and the file outside the folder, handleLocalCopy runs up to the await
\* of adapter.exists(dest)
ScanReturns(i, a) ==
  LET dups == Duplicates(a.folder, a.fileHash)
  IN IF dups # {}
     THEN \E q \in dups : Finish(i, [a EXCEPT !.localFile = q])
     ELSE IF ~StartsWithFolder(a.file, a.folder)
               /\ sanitizeFolderPath(settings.localCopyFolder).ok
     THEN /\ att' = [att EXCEPT ![i] =
               [a EXCEPT !.pc = "destCheck",
                         !.dest = DestPath(sanitizeFolderPath(settings.localCopyFolder).path,
                                           a.file)]]
          /\ UNCHANGED doc
     ELSE Finish(i, a)

\* the folder is there
ScanDone(i) ==
  /\ att[i].pc = "scan"
  /\ ScanReturns(i, att[i])
  /\ UNCHANGED <<session, settings, resetCalls, store, call, nCalls, got, arg, ret, now, vault, cacheFile, tmpFile,
                 pluginCreatedFiles, createdTimers, uploadingPaths,
                 shownMissingAutoUploadWarning, nAtt, urlSeq>>

\* file-handler.ts:345-349, 287-298: the folder is not there, and
\* findExistingIllustration has ensureFolderExists make it: createFolder is
\* called for every path on the way to the folder that does not exist
FolderCreated(i) ==
  /\ att[i].pc = "scan"
  /\ \A q \in DOMAIN vault : ~StartsWithFolder(q, att[i].folder)
  /\ \E first \in FolderPrefixes(att[i].folder) :
       ScanReturns(i, [att[i] EXCEPT !.createdFolders =
                         {f \in FolderPrefixes(att[i].folder) : Len(f) >= Len(first)}])
  /\ UNCHANGED <<session, settings, resetCalls, store, call, nCalls, got, arg, ret, now, vault, cacheFile, tmpFile,
                 pluginCreatedFiles, createdTimers, uploadingPaths,
                 shownMissingAutoUploadWarning, nAtt, urlSeq>>

\* file-handler.ts:311-334: adapter.exists(dest) (and the read of the file found
\* there) has returned; the path to write is marked and createBinary is called
DestChecked(i) ==
  /\ att[i].pc = "destCheck"
  /\ LET a == att[i]
         same == Exists(a.dest) /\ computeSha1(vault[a.dest].content) = computeSha1(a.data)
         finalPath == IF Exists(a.dest) THEN TimestampedPath(a.dest) ELSE a.dest
     IN IF same
        THEN /\ Finish(i, [a EXCEPT !.localFile = a.dest])
             /\ UNCHANGED <<pluginCreatedFiles, createdTimers>>
        ELSE /\ markPluginCreatedPath(finalPath)
             /\ att' = [att EXCEPT ![i] =
                  [a EXCEPT !.pc = "creating", !.dest = finalPath,
                            !.creates = @ \cup {finalPath}]]
             /\ UNCHANGED doc
  /\ UNCHANGED <<session, settings, resetCalls, store, call, nCalls, got, arg, ret, now, vault, cacheFile, tmpFile,
                 uploadingPaths, shownMissingAutoUploadWarning, nAtt, urlSeq>>

\* file-handler.ts:328-338, 164-166: createBinary has written the file, or has
\* thrown because the path is taken (handleLocalCopy returns undefined)
CreateDone(i) ==
  /\ att[i].pc = "creating"
  /\ IF Exists(att[i].dest)
     THEN /\ Finish(i, att[i])
          /\ UNCHANGED vault
     ELSE /\ vault' = (att[i].dest :> [content |-> att[i].data, ctime |-> now]) @@ vault
          /\ Finish(i, [att[i] EXCEPT !.localFile = att[i].dest])
  /\ UNCHANGED <<session, settings, resetCalls, store, call, nCalls, got, arg, ret, now, cacheFile, tmpFile,
                 pluginCreatedFiles, createdTimers, uploadingPaths,
                 shownMissingAutoUploadWarning, nAtt, urlSeq>>

\* file-handler.ts:195-207: vault.delete(file) has returned (or thrown); finally
DeleteDone(i) ==
  /\ att[i].pc = "deleting"
  /\ vault' = Remove(vault, att[i].file)
  /\ att' = [att EXCEPT ![i] = Finally(@)]
  /\ UNCHANGED <<session, settings, resetCalls, store, call, nCalls, got, arg, ret, now, doc, cacheFile, tmpFile,
                 pluginCreatedFiles, createdTimers, uploadingPaths,
                 shownMissingAutoUploadWarning, nAtt, urlSeq>>

\* file-handler.ts:206: the timer of the finally block fires
ReleasePath(i) ==
  /\ att[i].pc = "done"
  /\ now >= att[i].releaseAt
  /\ uploadingPaths' = uploadingPaths \ {att[i].file}
  /\ att' = [att EXCEPT ![i] = [@ EXCEPT !.pc = "released"]]
  /\ UNCHANGED <<session, settings, resetCalls, store, call, nCalls, got, arg, ret, now, vault, doc, cacheFile, tmpFile,
                 pluginCreatedFiles, createdTimers, shownMissingAutoUploadWarning,
                 nAtt, urlSeq>>

\* file-handler.ts:39: a timer of markPluginCreatedPath fires
ExpireCreated(t) ==
  /\ t \in createdTimers
  /\ now >= t.at
  /\ pluginCreatedFiles' = pluginCreatedFiles \ {t.path}
  /\ createdTimers' = createdTimers \ {t}
  /\ UNCHANGED <<session, settings, resetCalls, store, call, nCalls, got, arg, ret, now, vault, doc, cacheFile, tmpFile,
                 uploadingPaths, shownMissingAutoUploadWarning, att, nAtt, urlSeq>>

\* a timer of the finally block is set and its delay is not over
ReleasePending == \E i \in Slots : att[i].pc = "done" /\ now < att[i].releaseAt

\* time passes until the timer of a finally block is due (the event loop
\* sleeps until then)
TimePasses ==
  /\ ReleasePending
  /\ ~(\E t \in createdTimers : now >= t.at)
  /\ ~(\E i \in Slots : att[i].pc = "done" /\ now >= att[i].releaseAt)
  /\ now' = now + TickMs
  /\ UNCHANGED <<session, settings, resetCalls, helpers, vault, doc, cacheFile, tmpFile,
                 pluginCreatedFiles, createdTimers, uploadingPaths,
                 shownMissingAutoUploadWarning, att, nAtt, urlSeq>>

\* a reset that leaves the warning flag as it is
resetGuardsOnly ==
  /\ resetCalls < MaxResets
  /\ resetCalls' = resetCalls + 1
  /\ UNCHANGED shownMissingAutoUploadWarning
  /\ pluginCreatedFiles' = {}
  /\ uploadingPaths' = {}
  /\ UNCHANGED <<session, settings, store, call, nCalls, got, arg, ret, now, vault, doc, cacheFile, tmpFile,
                 createdTimers, att,
                 nAtt, urlSeq>>

\* file-handler.ts:22-30 (the timers already set stay set)
resetAutoUploadWarnings ==
  /\ resetCalls < MaxResets
  /\ resetCalls' = resetCalls + 1
  /\ shownMissingAutoUploadWarning' = FALSE
  /\ pluginCreatedFiles' = {}
  /\ uploadingPaths' = {}
  /\ UNCHANGED <<session, settings, store, call, nCalls, got, arg, ret, now, vault, doc, cacheFile, tmpFile,
                 createdTimers, att,
                 nAtt, urlSeq>>

\* a timer whose delay is over and whose callback has not run yet
TimerDue ==
  \/ \E t \in createdTimers : now >= t.at
  \/ \E i \in Slots : att[i].pc = "done" /\ now >= att[i].releaseAt

\* time passes (a step of the clock is far longer than the lateness of a timer)
Tick ==
  /\ now < MaxNow
  /\ ~TimerDue
  /\ now' = now + TickMs
  /\ UNCHANGED <<session, settings, resetCalls, store, call, nCalls, got, arg, ret, vault, doc, cacheFile, tmpFile,
                 pluginCreatedFiles, createdTimers, uploadingPaths,
                 shownMissingAutoUploadWarning, att, nAtt, urlSeq>>

\* the user types a reference into the active note
UserInsertRef(t) ==
  /\ t \notin doc
  /\ doc' = doc \cup {t}
  /\ UNCHANGED <<session, settings, resetCalls, store, call, nCalls, got, arg, ret, now, vault, cacheFile, tmpFile,
                 pluginCreatedFiles, createdTimers, uploadingPaths,
                 shownMissingAutoUploadWarning, att, nAtt, urlSeq>>

---------------------------------------------------------------------------
(* The awaited calls of processFileCreate that throw *)

\* file-handler.ts:125: app.vault.readBinary(file) has thrown
ReadThrows(i) ==
  /\ att[i].pc = "read"
  /\ att' = [att EXCEPT ![i] = Throw([@ EXCEPT !.reads = @ + 1], "readBinary")]
  /\ UNCHANGED <<shownMissingAutoUploadWarning, doc>>
  /\ UNCHANGED <<session, settings, resetCalls, helpers, now, vault, cacheFile, tmpFile,
                 pluginCreatedFiles, createdTimers, uploadingPaths, nAtt, urlSeq>>

\* file-handler.ts:126, 374-376: readBinary has returned and computeSha1 throws
\* 'WebCrypto not available'
HashThrows(i) ==
  /\ att[i].pc = "read"
  /\ Exists(att[i].file)
  /\ att' = [att EXCEPT ![i] = Throw([@ EXCEPT !.reads = @ + 1], "computeSha1")]
  /\ UNCHANGED <<shownMissingAutoUploadWarning, doc>>
  /\ UNCHANGED <<session, settings, resetCalls, helpers, now, vault, cacheFile, tmpFile,
                 pluginCreatedFiles, createdTimers, uploadingPaths, nAtt, urlSeq>>

\* cache.ts:27-38, 102-104: adapter.exists or adapter.read has thrown inside
\* readCache, which returns {}: getEntry returns null
CacheGetFaulted(i) ==
  /\ att[i].pc = "cacheGet"
  /\ UploadGate(i, att[i])
  /\ UNCHANGED <<session, settings, resetCalls, helpers, now, vault, cacheFile, tmpFile,
                 pluginCreatedFiles, createdTimers, uploadingPaths, nAtt, urlSeq>>

\* cache.ts:34, file-handler.ts:227: readCache has rejected (the file holds
\* null, or an entry that is null): getEntry rejects, outside the try of
\* handleUpload
CacheGetRejects(i) ==
  /\ att[i].pc = "cacheGet"
  /\ att' = [att EXCEPT ![i] = Throw(@, "getEntry")]
  /\ UNCHANGED <<shownMissingAutoUploadWarning, doc>>
  /\ UNCHANGED <<session, settings, resetCalls, helpers, now, vault, cacheFile, tmpFile,
                 pluginCreatedFiles, createdTimers, uploadingPaths, nAtt, urlSeq>>

\* cache.ts:108, file-handler.ts:269, 280-284: readCache has rejected inside
\* addEntry, within the try of handleUpload: the upload is reported as failed
AddEntryRejects(i) ==
  /\ att[i].pc = "addRead"
  /\ LocalStage(i, Notify(att[i], "fail: other"))
  /\ UNCHANGED shownMissingAutoUploadWarning
  /\ UNCHANGED <<session, settings, resetCalls, helpers, now, vault, cacheFile, tmpFile,
                 pluginCreatedFiles, createdTimers, uploadingPaths, nAtt, urlSeq>>

\* cache.ts:88, 96-99: adapter.write(tempPath) has thrown: writeCache shows
\* 'Error saving Cloudinary cache' and returns, and addEntry with it
WriteTempThrows(i) ==
  /\ att[i].pc = "wTmp"
  /\ UploadReturns(i, Notify(att[i], "cacheError"))
  /\ UNCHANGED shownMissingAutoUploadWarning
  /\ UNCHANGED <<session, settings, resetCalls, helpers, now, vault, cacheFile, tmpFile,
                 pluginCreatedFiles, createdTimers, uploadingPaths, nAtt, urlSeq>>

\* cache.ts:94, 96-99: adapter.copy(tempPath, cachePath) has thrown, after the
\* cache file was removed
CopyTempThrows(i) ==
  /\ att[i].pc = "wCopy"
  /\ UploadReturns(i, Notify(att[i], "cacheError"))
  /\ UNCHANGED shownMissingAutoUploadWarning
  /\ UNCHANGED <<session, settings, resetCalls, helpers, now, vault, cacheFile, tmpFile,
                 pluginCreatedFiles, createdTimers, uploadingPaths, nAtt, urlSeq>>

\* file-handler.ts:294-295, 346-353, 305, 336-339: createFolder has thrown, in
\* findExistingIllustration and in handleLocalCopy, which both return undefined
CreateFolderThrows(i) ==
  /\ att[i].pc = "scan"
  /\ Finish(i, att[i])
  /\ UNCHANGED shownMissingAutoUploadWarning
  /\ UNCHANGED <<session, settings, resetCalls, helpers, now, vault, cacheFile, tmpFile,
                 pluginCreatedFiles, createdTimers, uploadingPaths, nAtt, urlSeq>>

\* file-handler.ts:328-338: createBinary has thrown (the path stays marked)
CreateThrows(i) ==
  /\ att[i].pc = "creating"
  /\ Finish(i, att[i])
  /\ UNCHANGED shownMissingAutoUploadWarning
  /\ UNCHANGED <<session, settings, resetCalls, helpers, now, vault, cacheFile, tmpFile,
                 pluginCreatedFiles, createdTimers, uploadingPaths, nAtt, urlSeq>>

\* file-handler.ts:195-199: vault.delete(file) has thrown: the catch logs it
DeleteThrows(i) ==
  /\ att[i].pc = "deleting"
  /\ att' = [att EXCEPT ![i] = Finally(@)]
  /\ UNCHANGED <<shownMissingAutoUploadWarning, doc>>
  /\ UNCHANGED <<session, settings, resetCalls, helpers, now, vault, cacheFile, tmpFile,
                 pluginCreatedFiles, createdTimers, uploadingPaths, nAtt, urlSeq>>

\* the editor of the active note starts to throw, and works again
EditorFails ==
  /\ editor = "ok"
  /\ editor' = "throws"
  /\ UNCHANGED <<triedAutoCreatePreset, shownAutoCreatePresetWarning, hfc, presetResets,
                 settings, resetCalls, helpers, now, vault, doc, cacheFile, tmpFile,
                 pluginCreatedFiles, createdTimers, uploadingPaths,
                 shownMissingAutoUploadWarning, att, nAtt, urlSeq>>

EditorRecovers ==
  /\ editor = "throws"
  /\ editor' = "ok"
  /\ UNCHANGED <<triedAutoCreatePreset, shownAutoCreatePresetWarning, hfc, presetResets,
                 settings, resetCalls, helpers, now, vault, doc, cacheFile, tmpFile,
                 pluginCreatedFiles, createdTimers, uploadingPaths,
                 shownMissingAutoUploadWarning, att, nAtt, urlSeq>>

\* the user closes the active note, and opens it again
ViewCloses ==
  /\ editor \in {"ok", "readonly"}
  /\ editor' = "none"
  /\ UNCHANGED <<triedAutoCreatePreset, shownAutoCreatePresetWarning, hfc, presetResets,
                 settings, resetCalls, helpers, now, vault, doc, cacheFile, tmpFile,
                 pluginCreatedFiles, createdTimers, uploadingPaths,
                 shownMissingAutoUploadWarning, att, nAtt, urlSeq>>

ViewOpens ==
  /\ editor = "none"
  /\ editor' = "ok"
  /\ UNCHANGED <<triedAutoCreatePreset, shownAutoCreatePresetWarning, hfc, presetResets,
                 settings, resetCalls, helpers, now, vault, doc, cacheFile, tmpFile,
                 pluginCreatedFiles, createdTimers, uploadingPaths,
                 shownMissingAutoUploadWarning, att, nAtt, urlSeq>>

---------------------------------------------------------------------------
(* CloudinaryCache on the files of the vault adapter, entry by entry *)

MaxCalls == MaxEvents + 1

Undefined == "undefined"
Null == "null"

CacheHashes == {"h1", "h2"}

\* new Date().toISOString() at the n-th call of a session; "t0" is earlier
IsoTimes == <<"t1", "t2", "t3", "t4", "t5", "t6">>
toISOString(n) == IsoTimes[n]

\* cache.ts:3-9: a value stored under a hash: an object, a bare string (its
\* text is kept in url) or null; a key that is absent reads as undefined
CacheEntry(url, public_id, filename, uploaded_at, uploader) ==
  [t |-> "object", url |-> url, public_id |-> public_id, filename |-> filename,
   uploaded_at |-> uploaded_at, uploader |-> uploader]

LegacyEntry(s) ==
  [t |-> "string", url |-> s, public_id |-> Undefined, filename |-> Undefined,
   uploaded_at |-> Undefined, uploader |-> Undefined]

NullEntry ==
  [t |-> "null", url |-> Undefined, public_id |-> Undefined, filename |-> Undefined,
   uploaded_at |-> Undefined, uploader |-> Undefined]

\* the text of a file: text that is not JSON, or the JSON text of a value
NotJson == [t |-> "text", map |-> EmptyMap]
JsonNull == [t |-> "null", map |-> EmptyMap]
JsonNumber == [t |-> "number", map |-> EmptyMap]
JsonObject(m) == [t |-> "object", map |-> m]
Absent == [t |-> "absent", map |-> EmptyMap]

\* JSON.stringify(cache, null, 2): the keys whose value is undefined are left
\* out, which is how this representation reads them back
JSONstringify(cache) == JsonObject(cache)

\* JSON.parse(content)
JSONparse(content) == [threw |-> content.t = "text", value |-> content]

\* a ?? b
Coalesce(a, b) == IF a \in {Undefined, Null} THEN b ELSE a

\* cache.ts:49-70: the entry that migrateCache stores for an entry of the file
Incomplete(e) ==
  /\ e.t = "object"
  /\ e.url # Undefined
  /\ Undefined \in {e.public_id, e.filename, e.uploaded_at, e.uploader}

MigrateEntry(e, iso) ==
  IF e.t = "string"
  THEN CacheEntry(e.url, Null, Null, iso, "migrated")
  ELSE IF Incomplete(e)
  THEN CacheEntry(e.url, Coalesce(e.public_id, Null), Coalesce(e.filename, Null),
                  Coalesce(e.uploaded_at, iso), Coalesce(e.uploader, "unknown"))
  ELSE e

\* a migration that keeps the bare strings as they are
migrateObjectsOnly(data, iso) ==
  [threw |-> \/ data.t = "null"
             \/ \E h \in DOMAIN data.map : data.map[h].t = "null",
   needsWrite |-> \E h \in DOMAIN data.map : Incomplete(data.map[h]),
   migrated |-> [h \in DOMAIN data.map |->
                   IF data.map[h].t = "string" THEN data.map[h]
                   ELSE MigrateEntry(data.map[h], iso)]]

\* cache.ts:41-79, up to its await: Object.entries(data) throws for null, and
\* e.url throws for an entry that is null; a number has no entries
migrateCache(data, iso) ==
  [threw |-> \/ data.t = "null"
             \/ \E h \in DOMAIN data.map : data.map[h].t = "null",
   needsWrite |-> \E h \in DOMAIN data.map :
                     data.map[h].t = "string" \/ Incomplete(data.map[h]),
   migrated |-> [h \in DOMAIN data.map |-> MigrateEntry(data.map[h], iso)]]

\* what the methods of CloudinaryCache leave alone
pipeline ==
  <<session, settings, resetCalls, arg, ret, now, vault, doc, cacheFile, tmpFile, pluginCreatedFiles,
    createdTimers, uploadingPaths, shownMissingAutoUploadWarning, att, nAtt, urlSeq>>

NoStore == [cache |-> Absent, tmp |-> Absent]

NoCall ==
  [op |-> "none", pc |-> "idle", hash |-> "", entry |-> NullEntry, phase |-> "",
   map |-> EmptyMap, ret |-> NullEntry, threw |-> FALSE,
   \* what JSON.parse gave to readCache; what the readCache just before returned
   data |-> Absent, last |-> [some |-> FALSE, map |-> EmptyMap],
   \* adapter.read has thrown in this call; it has thrown in no call so far
   faulted |-> FALSE, sound |-> TRUE]

NoGot == [h \in CacheHashes |-> NotJson]

CallOver == call.pc \in {"idle", "returned"}

\* the caller gets its answer: readCache the map, getEntry cache[hash] || null
Returns(c) ==
  /\ call' = [c EXCEPT !.pc = "returned"]
  /\ got' = IF c.threw \/ c.op = "readCache" THEN got
            ELSE IF c.op = "getEntry" THEN [got EXCEPT ![c.hash] = c.ret]
            ELSE [got EXCEPT ![c.hash] = c.entry]

\* cache.ts:81-82, 88: writeCache(cache) is called
WriteCacheCalled(c, cache) ==
  IF settings.cacheFilePath
  THEN /\ call' = [c EXCEPT !.pc = "wTmp", !.map = cache]
       /\ UNCHANGED got
  ELSE Returns(c)

\* an addEntry that writes its own entry and nothing else
ReadCacheForgets(c, m) ==
  CASE c.op = "readCache" -> Returns([c EXCEPT !.map = m])
    [] c.op = "getEntry" ->
         Returns([c EXCEPT !.ret = IF c.hash \in DOMAIN m THEN m[c.hash] ELSE NullEntry])
    [] c.op = "addEntry" ->
         WriteCacheCalled([c EXCEPT !.phase = "add"], (c.hash :> c.entry))

\* readCache gives m to the method that awaits it
ReadCacheReturns(c, m) ==
  CASE c.op = "readCache" -> Returns([c EXCEPT !.map = m])
    [] c.op = "getEntry" ->
         Returns([c EXCEPT !.ret = IF c.hash \in DOMAIN m THEN m[c.hash] ELSE NullEntry])
    [] c.op = "addEntry" ->
         WriteCacheCalled([c EXCEPT !.phase = "add"], (c.hash :> c.entry) @@ m)

\* cache.ts:24-25, 102-103, 107-108: a method is called; readCache returns {}
\* at once when the path is empty
CacheCalled(op, h, e) ==
  /\ CallOver
  /\ nCalls < MaxCalls
  /\ nCalls' = nCalls + 1
  /\ LET c == [NoCall EXCEPT !.op = op, !.hash = h, !.entry = e, !.pc = "exists",
                              !.sound = call.sound,
                              !.last = IF call.op = "readCache" /\ call.pc = "returned"
                                          /\ ~call.threw
                                       THEN [some |-> TRUE, map |-> call.map]
                                       ELSE [some |-> FALSE, map |-> EmptyMap]]
     IN IF settings.cacheFilePath
        THEN call' = c /\ UNCHANGED got
        ELSE ReadCacheReturns(c, EmptyMap)
  /\ UNCHANGED <<store, pipeline>>

CallReadCache == CacheCalled("readCache", "", NullEntry)

\* file-handler.ts:225-227
CallGetEntry(h) == settings.cacheFilePath /\ CacheCalled("getEntry", h, NullEntry)

\* file-handler.ts:267-275
CallAddEntry(h, url) ==
  /\ settings.cacheFilePath
  /\ CacheCalled("addEntry", h,
                 CacheEntry(url, Null, "f", toISOString(nCalls + 1), "obsidian-plugin"))

\* cache.ts:28-29: adapter.exists has returned
CacheExists ==
  /\ call.pc = "exists"
  /\ IF store.cache = Absent
     THEN ReadCacheReturns(call, EmptyMap)
     ELSE call' = [call EXCEPT !.pc = "read"] /\ UNCHANGED got
  /\ UNCHANGED <<store, nCalls, pipeline>>

\* cache.ts:31-34: adapter.read has returned; JSON.parse throws into the catch;
\* the promise of migrateCache is returned without await, so that its rejection
\* is the rejection of readCache
CacheRead ==
  /\ call.pc = "read"
  /\ LET parsed == JSONparse(store.cache)
         m == migrateCache(parsed.value, toISOString(nCalls))
     IN IF parsed.threw
        THEN ReadCacheReturns(call, EmptyMap)
        ELSE IF m.threw
        THEN Returns([call EXCEPT !.threw = TRUE, !.data = parsed.value])
        ELSE IF m.needsWrite
        THEN WriteCacheCalled([call EXCEPT !.phase = "migrate", !.data = parsed.value],
                              m.migrated)
        ELSE ReadCacheReturns([call EXCEPT !.data = parsed.value], m.migrated)
  /\ UNCHANGED <<store, nCalls, pipeline>>

\* cache.ts:31, 35-38: adapter.read has thrown
CacheReadFails ==
  /\ call.pc = "read"
  /\ ReadCacheReturns([call EXCEPT !.faulted = TRUE, !.sound = FALSE], EmptyMap)
  /\ UNCHANGED <<store, nCalls, pipeline>>

\* cache.ts:85-88: adapter.write(tempPath, content) has returned
CacheWriteTemp ==
  /\ call.pc = "wTmp"
  /\ store' = [store EXCEPT !.tmp = JSONstringify(call.map)]
  /\ call' = [call EXCEPT !.pc = "wRemove"]
  /\ UNCHANGED <<nCalls, got, pipeline>>

\* a removal that takes the temporary file with it
CacheRemoveBoth ==
  /\ call.pc = "wRemove"
  /\ store' = NoStore
  /\ call' = [call EXCEPT !.pc = "wCopy"]
  /\ UNCHANGED <<nCalls, got, pipeline>>

\* cache.ts:93: adapter.remove(cachePath) has returned
CacheRemovePrimary ==
  /\ call.pc = "wRemove"
  /\ store' = [store EXCEPT !.cache = Absent]
  /\ call' = [call EXCEPT !.pc = "wCopy"]
  /\ UNCHANGED <<nCalls, got, pipeline>>

\* cache.ts:94: adapter.copy(tempPath, cachePath) has returned
CacheCopyTemp ==
  /\ call.pc = "wCopy"
  /\ store' = [store EXCEPT !.cache = store.tmp]
  /\ call' = [call EXCEPT !.pc = "wRmTmp"]
  /\ UNCHANGED <<nCalls, got, pipeline>>

\* cache.ts:95: adapter.remove(tempPath) has returned, and writeCache with it:
\* migrateCache returns the migrated map, addEntry returns
CacheRemoveTemp ==
  /\ call.pc = "wRmTmp"
  /\ store' = [store EXCEPT !.tmp = Absent]
  /\ IF call.phase = "migrate"
     THEN ReadCacheReturns(call, call.map)
     ELSE Returns(call)
  /\ UNCHANGED <<nCalls, pipeline>>

---------------------------------------------------------------------------
(* The helper functions, called on their own *)

\* file-handler.ts:302: sanitizeFolderPath(settings.localCopyFolder) returns or throws
SanitizeCalled ==
  /\ arg.fn = "sanitizeFolderPath"
  /\ ~ret.done
  /\ ret' = [done |-> TRUE, ok |-> sanitizeFolderPath(arg.value).ok,
             path |-> sanitizeFolderPath(arg.value).path]
  /\ UNCHANGED <<session, settings, resetCalls, store, call, nCalls, got, arg, now, vault, doc,
                 cacheFile, tmpFile, pluginCreatedFiles, createdTimers, uploadingPaths,
                 shownMissingAutoUploadWarning, att, nAtt, urlSeq>>

\* The text of a note, occurrence by occurrence.  A token is
\*   md    ![alt](tgt)         wiki  ![[tgt]] or ![[tgt|...]], alt = <<"|", ...>>
\*   text  anything else
\* alt and tgt are sequences of pieces of text.
Token(kind, alt, tgt) == [kind |-> kind, alt |-> alt, tgt |-> tgt]

\* encodeURI: a space becomes %20, the other pieces are kept
encodeURI(s) == [i \in 1..Len(s) |-> IF s[i] = " " THEN "%20" ELSE s[i]]

\* [^)]*name[^)]* : the target has the name somewhere in it
ContainsSeq(t, n) ==
  \E i \in 0..(Len(t) - Len(n)) : SubSeq(t, i + 1, i + Len(n)) = n

\* file-handler.ts:442-457: markdownRegexes then wikiRegexes; does the r-th
\* regular expression match the token
TokenMatches(r, tok, file) ==
  CASE r = 1 -> tok.kind = "md" /\ tok.tgt = file.path
    [] r = 2 -> tok.kind = "md" /\ tok.tgt = file.name
    [] r = 3 -> tok.kind = "md" /\ tok.tgt = encodeURI(file.path)
    [] r = 4 -> tok.kind = "md" /\ tok.tgt = encodeURI(file.name)
    [] r = 5 -> tok.kind = "md" /\ ContainsSeq(tok.tgt, file.name)
    [] r = 6 -> tok.kind = "wiki" /\ tok.tgt = file.path
    [] r = 7 -> tok.kind = "wiki" /\ tok.tgt = file.name
    [] r = 8 -> tok.kind = "wiki" /\ tok.tgt = file.basename
    [] r = 9 -> tok.kind = "wiki" /\ tok.tgt = encodeURI(file.path)
    [] r = 10 -> tok.kind = "wiki" /\ tok.tgt = encodeURI(file.name)

\* a callback that keeps the alt text as it is
KeepAlt(alt) == alt

\* file-handler.ts:464: alt ? alt.replace(/^\|/, '') : ''
AltText(alt) == IF alt # <<>> /\ Head(alt) = "|" THEN Tail(alt) ELSE alt

\* file-handler.ts:463-466: the callback of replace
Rewritten(tok, replacementUrl) == Token("md", AltText(tok.alt), replacementUrl)

\* file-handler.ts:459-468: newContent after the first r regular expressions
RECURSIVE NewContent(_, _, _, _)
NewContent(r, content, file, replacementUrl) ==
  IF r = 0 THEN content
  ELSE LET c == NewContent(r - 1, content, file, replacementUrl)
       IN [i \in 1..Len(c) |-> IF TokenMatches(r, c[i], file)
                                THEN Rewritten(c[i], replacementUrl)
                                ELSE c[i]]

\* file-handler.ts:419-479, with the editor's text before and after
ReplaceCalled ==
  /\ arg.fn = "replaceImageReference"
  /\ ~ret.done
  /\ LET newContent == NewContent(10, arg.content, arg.file, arg.replacementUrl)
     IN IF ~arg.view
        THEN ret' = [done |-> TRUE, changed |-> FALSE, content |-> arg.content,
                     setValueCalls |-> 0]
        ELSE IF newContent # arg.content
        THEN ret' = [done |-> TRUE, changed |-> TRUE, content |-> newContent,
                     setValueCalls |-> 1]
        ELSE ret' = [done |-> TRUE, changed |-> FALSE, content |-> arg.content,
                     setValueCalls |-> 0]
  /\ UNCHANGED <<session, settings, resetCalls, store, call, nCalls, got, arg, now, vault, doc,
                 cacheFile, tmpFile, pluginCreatedFiles, createdTimers, uploadingPaths,
                 shownMissingAutoUploadWarning, att, nAtt, urlSeq>>

---------------------------------------------------------------------------
(* CloudinaryPlugin.handleFileCreate and the auto-create module *)

\* one call of handleFileCreate: the file of the event, where the call stands,
\* the call of processFileCreate it awaits (0: none, or one the guards turned
\* away), the value of presetResets when it called ensureUploadPreset, how
\* often it did, the value of presetResets when it showed the warning of
\* auto-create (-1: it has not), and the Notices it has shown
NoHandler ==
  [file |-> NoPath, ctime |-> 0, pc |-> "idle", slot |-> 0, epoch |-> 0,
   ensureCalls |-> 0, warnedIn |-> -1, notes |-> <<>>]

Handlers == DOMAIN hfc

\* the plugin has been loaded and has handled n events at most
SessionAtLoad(n) ==
  /\ editor = "ok"
  /\ triedAutoCreatePreset = FALSE
  /\ shownAutoCreatePresetWarning = FALSE
  /\ hfc = [k \in 1..n |-> NoHandler]
  /\ presetResets = 0

\* what handleFileCreate leaves alone until it calls processFileCreate
intake ==
  <<resetCalls, helpers, now, vault, doc, cacheFile, tmpFile, pluginCreatedFiles,
    createdTimers, uploadingPaths, shownMissingAutoUploadWarning, att, nAtt, urlSeq>>

\* main.ts:65-68, 119-126: a file-created event reaches handleFileCreate, which
\* awaits the import of auto-create
HandleFileCreate(p) ==
  /\ Exists(p)
  /\ \E k \in Handlers :
       /\ hfc[k].pc = "idle"
       /\ \A j \in 1..(k - 1) : hfc[j].pc # "idle"
       /\ hfc' = [hfc EXCEPT ![k] =
                    [NoHandler EXCEPT !.file = p, !.ctime = vault[p].ctime, !.pc = "import"]]
  /\ UNCHANGED <<editor, triedAutoCreatePreset, shownAutoCreatePresetWarning, presetResets,
                 settings, intake>>

\* main.ts:141-145: the catch of handleFileCreate shows a Notice and the
\* handler returns
HandlerCatch(h, msg) == [h EXCEPT !.pc = "returned", !.notes = Append(@, msg)]

\* main.ts:126, 141-145: the import has failed
ImportThrows(k) ==
  /\ hfc[k].pc = "import"
  /\ hfc' = [hfc EXCEPT ![k] = HandlerCatch(@, "error")]
  /\ UNCHANGED <<editor, triedAutoCreatePreset, shownAutoCreatePresetWarning, presetResets,
                 settings, intake>>

\* an attempt that is made whenever the credentials are there
AutoCreateWantedAlways ==
  /\ settings.autoUploadOnFileAdd /\ settings.cloudName /\ ~settings.uploadPreset
  /\ settings.signed

\* auto-create:64-68: the guards of tryAutoCreatePresetOnce
AutoCreateWanted ==
  /\ ~triedAutoCreatePreset
  /\ settings.autoUploadOnFileAdd /\ settings.cloudName /\ ~settings.uploadPreset
  /\ settings.signed

\* main.ts:126-133, auto-create:64-73: the import is done and
\* tryAutoCreatePresetOnce runs up to its await of ensureUploadPreset, or returns
PresetTried(k) ==
  /\ hfc[k].pc = "import"
  /\ IF AutoCreateWanted
     THEN /\ triedAutoCreatePreset' = TRUE
          /\ hfc' = [hfc EXCEPT ![k] = [@ EXCEPT !.pc = "ensure", !.epoch = presetResets,
                                                  !.ensureCalls = @ + 1]]
     ELSE /\ UNCHANGED triedAutoCreatePreset
          /\ hfc' = [hfc EXCEPT ![k] = [@ EXCEPT !.pc = "process"]]
  /\ UNCHANGED <<editor, shownAutoCreatePresetWarning, presetResets, settings, intake>>

\* auto-create:73-76, 80: ensureUploadPreset has returned the name of a preset,
\* which is put into the settings, or nothing
EnsureReturns(k, res) ==
  /\ hfc[k].pc = "ensure"
  /\ IF res
     THEN /\ settings' = [settings EXCEPT !.uploadPreset = TRUE]
          /\ hfc' = [hfc EXCEPT ![k] = [@ EXCEPT !.pc = "save"]]
     ELSE /\ UNCHANGED settings
          /\ hfc' = [hfc EXCEPT ![k] = [@ EXCEPT !.pc = "process"]]
  /\ UNCHANGED <<editor, triedAutoCreatePreset, shownAutoCreatePresetWarning, presetResets,
                 intake>>

\* auto-create:81-89: the catch of tryAutoCreatePresetOnce
WarnOnce(h) ==
  IF shownAutoCreatePresetWarning THEN [h EXCEPT !.pc = "process"]
  ELSE [h EXCEPT !.pc = "process", !.warnedIn = presetResets,
                  !.notes = Append(@, "presetWarning")]

\* auto-create:73, 81-89: ensureUploadPreset has thrown
EnsureThrows(k) ==
  /\ hfc[k].pc = "ensure"
  /\ hfc' = [hfc EXCEPT ![k] = WarnOnce(@)]
  /\ shownAutoCreatePresetWarning' = TRUE
  /\ UNCHANGED <<editor, triedAutoCreatePreset, presetResets, settings, intake>>

\* auto-create:76-78: saveSettings has returned
SaveDone(k) ==
  /\ hfc[k].pc = "save"
  /\ hfc' = [hfc EXCEPT ![k] = [@ EXCEPT !.pc = "process", !.notes = Append(@, "presetCreated")]]
  /\ UNCHANGED <<editor, triedAutoCreatePreset, shownAutoCreatePresetWarning, presetResets,
                 settings, intake>>

\* auto-create:76, 81-89: saveSettings has thrown
SaveThrows(k) ==
  /\ hfc[k].pc = "save"
  /\ hfc' = [hfc EXCEPT ![k] = WarnOnce(@)]
  /\ shownAutoCreatePresetWarning' = TRUE
  /\ UNCHANGED <<editor, triedAutoCreatePreset, presetResets, settings, intake>>

\* auto-create:48-51
resetAutoCreatePresetState ==
  /\ presetResets < MaxResets
  /\ presetResets' = presetResets + 1
  /\ triedAutoCreatePreset' = FALSE
  /\ shownAutoCreatePresetWarning' = FALSE
  /\ UNCHANGED <<editor, hfc, settings, intake>>

\* main.ts:140, file-handler.ts:52-117: handleFileCreate calls processFileCreate,
\* which returns at a guard or runs up to its first await
ProcessCalled(k) ==
  /\ hfc[k].pc = "process"
  /\ LET p == hfc[k].file
     IN IF GuardsFor(p, hfc[k].ctime) = "admitted"
        THEN /\ nAtt < Len(att)
             /\ nAtt' = nAtt + 1
             /\ uploadingPaths' = uploadingPaths \cup {p}
             /\ att' = [att EXCEPT ![nAtt + 1] =
                          IF editor = "throws"
                          THEN Throw([Idle EXCEPT !.file = p], "editor")
                          ELSE IF Seen(p)
                          THEN [Idle EXCEPT !.file = p, !.pc = "read"]
                          ELSE [Idle EXCEPT !.file = p, !.pc = "sleep", !.attempts = 1]]
             /\ hfc' = [hfc EXCEPT ![k] = [@ EXCEPT !.pc = "await", !.slot = nAtt + 1]]
        ELSE /\ hfc' = [hfc EXCEPT ![k] = [@ EXCEPT !.pc = "await"]]
             /\ UNCHANGED <<nAtt, uploadingPaths, att>>
  /\ UNCHANGED <<editor, triedAutoCreatePreset, shownAutoCreatePresetWarning, presetResets,
                 settings, resetCalls, helpers, now, vault, doc, cacheFile, tmpFile,
                 pluginCreatedFiles, createdTimers, shownMissingAutoUploadWarning, urlSeq>>

\* main.ts:140-146: the promise of processFileCreate is settled and
\* handleFileCreate goes on: it returns, or catches the rejection
ProcessSettled(k) ==
  /\ hfc[k].pc = "await"
  /\ hfc[k].slot # 0 => att[hfc[k].slot].pc \in {"done", "released"}
  /\ hfc' = [hfc EXCEPT ![k] =
       IF hfc[k].slot # 0 /\ att[hfc[k].slot].rejected
       THEN HandlerCatch(@, "error")
       ELSE [@ EXCEPT !.pc = "returned"]]
  /\ UNCHANGED <<editor, triedAutoCreatePreset, shownAutoCreatePresetWarning, presetResets,
                 settings, intake>>

---------------------------------------------------------------------------
(* Specifications *)

\* The settings of the model: a cloud name and an upload preset are set, signed
\* credentials are not, the local-copy folder is 'a/'.
\* With auto-upload off, the cache path and the deletion flag are not consulted.
SettingsSet ==
  {s \in [autoUploadOnFileAdd : BOOLEAN, cloudName : {TRUE}, cacheFilePath : BOOLEAN,
          uploadPreset : {TRUE}, signed : {FALSE}, maxAutoUploadSizeMB : {1},
          localCopyEnabled : BOOLEAN, localCopyFolder : {<<"a", "/">>},
          deleteSourceAfterUpload : BOOLEAN] :
     ~s.autoUploadOnFileAdd => ~s.cacheFilePath /\ ~s.deleteSourceAfterUpload}

\* upload with a shared cache and a local copy
RaceSettings ==
  {s \in SettingsSet : s.autoUploadOnFileAdd /\ s.cacheFilePath /\ s.localCopyEnabled}

\* upload only, with a size limit of 1 MB or with none
BurstSettings ==
  {[s EXCEPT !.maxAutoUploadSizeMB = m] :
     s \in {t \in SettingsSet : /\ t.autoUploadOnFileAdd /\ ~t.cacheFilePath
                                /\ ~t.localCopyEnabled /\ ~t.deleteSourceAfterUpload},
     m \in {0, 1}}

\* the state of the module as the plugin is loaded
InitSession ==
  /\ resetCalls = 0
  /\ store = NoStore
  /\ call = NoCall
  /\ nCalls = 0
  /\ got = NoGot
  /\ arg = NoArg
  /\ ret = NoRet
  /\ now = StartMs
  /\ cacheFile = NoFile
  /\ tmpFile = NoFile
  /\ pluginCreatedFiles = {}
  /\ createdTimers = {}
  /\ uploadingPaths = {}
  /\ shownMissingAutoUploadWarning = FALSE
  /\ SessionAtLoad(0)
  /\ nAtt = 0
  /\ urlSeq = 0

Dropped(files) == [p \in DOMAIN files |-> [content |-> files[p], ctime |-> StartMs]]

Quiet == \A j \in Slots : ~Active(j)

Events ==
  \/ \E p \in DOMAIN vault : FileCreateSkipped(p)
  \/ \E p \in DOMAIN vault : FileCreateAdmitted(p)

EventsInTurn ==
  \/ \E p \in DOMAIN vault : FileCreateSkipped(p)
  \/ \E p \in DOMAIN vault : Quiet /\ FileCreateAdmitted(p)

Reading == \E i \in Slots : ReadDone(i)

Waiting ==
  \/ \E i \in Slots : PollWake(i)
  \/ \E t \in TypedRefs : UserInsertRef(t)

Uploading ==
  \/ \E i \in Slots : UploadOk(i)
  \/ \E i \in Slots : UploadFail(i)

Caching ==
  \/ \E i \in Slots : CacheGetDone(i)
  \/ \E i \in Slots : AddEntryRead(i)
  \/ \E i \in Slots : WriteTemp(i)
  \/ \E i \in Slots : RemovePrimary(i)
  \/ \E i \in Slots : CopyTemp(i)
  \/ \E i \in Slots : RemoveTemp(i)

Copying ==
  \/ \E i \in Slots : ScanDone(i)
  \/ \E i \in Slots : DestChecked(i)
  \/ \E i \in Slots : CreateDone(i)

Deleting == \E i \in Slots : DeleteDone(i)

Timers ==
  \/ \E i \in Slots : ReleasePath(i)
  \/ \E t \in createdTimers : ExpireCreated(t)
  \/ Tick

\* A session in which the file-created events are handled one after the other
Init ==
  /\ settings \in SettingsSet
  /\ att = [i \in 1..MaxEvents |-> Idle]
  /\ vault = Dropped(StartFiles)
  /\ doc = Embeds({P(Notes, "x", "png")}, {P(Notes, "y", "png")})
  /\ InitSession

Next ==
  \/ EventsInTurn \/ Reading \/ Waiting \/ Uploading \/ Caching \/ Copying
  \/ Deleting \/ Timers

Spec == Init /\ [][Next]_vars

\* A session in which the calls of processFileCreate overlap.  (Every image is
\* named in the note: the reference wait is followed in Spec.)
InitRace ==
  /\ settings \in RaceSettings
  /\ att = [i \in 1..MaxEvents |-> Idle]
  /\ vault \in {Dropped(StartFiles), Dropped(StartFiles @@ FolderFiles)}
  /\ doc = Embeds({P(Notes, "x", "png"), P(Notes, "w", "png")}, {P(Notes, "y", "png")})
  /\ InitSession

NextRace ==
  \/ Events \/ Reading \/ Uploading \/ Caching \/ Copying \/ Deleting \/ Timers

SpecRace == InitRace /\ [][NextRace]_vars

\* A session in which the calls overlap and every image is copied: local
\* copy, with or without upload, no cache, the sources kept
LoopSettings ==
  {s \in SettingsSet : ~s.cacheFilePath /\ s.localCopyEnabled /\ ~s.deleteSourceAfterUpload}

InitLoop ==
  /\ settings \in LoopSettings
  /\ att = [i \in 1..MaxEvents |-> Idle]
  /\ vault \in {Dropped(LoopFiles), Dropped(LoopFiles @@ FolderFiles)}
  /\ doc = Embeds({P(Notes, "x", "png")}, {P(Notes, "w", "png")})
  /\ InitSession

NextLoop == Events \/ Reading \/ Uploading \/ Copying \/ Timers

SpecLoop == InitLoop /\ [][NextLoop]_vars

\* A session in which more images than the ceiling are dropped at once
InitBurst ==
  /\ settings \in BurstSettings
  /\ att = [i \in 1..(MAX_CONCURRENT_UPLOADS + 1) |-> Idle]
  /\ vault = Dropped(BurstFiles)
  /\ doc = Embeds(DOMAIN BurstFiles, {})
  /\ InitSession

NextBurst == Events \/ Reading \/ Uploading

SpecBurst == InitBurst /\ [][NextBurst]_vars

\* A session with auto-upload on and nothing to upload with: no upload preset,
\* no signed credentials.  With a cache path set, the cache holds the bytes of w.
WarnSettings ==
  {[s EXCEPT !.uploadPreset = FALSE] :
     s \in {t \in SettingsSet : /\ t.autoUploadOnFileAdd /\ ~t.localCopyEnabled
                                /\ ~t.deleteSourceAfterUpload}}

CachedUrl == 9

InitWarn ==
  /\ settings \in WarnSettings
  /\ att = [i \in 1..(MaxEvents + 1) |-> Idle]
  /\ vault = Dropped(StartFiles)
  /\ doc = Embeds(DOMAIN StartFiles, {})
  /\ cacheFile = IF settings.cacheFilePath
                 THEN [ex |-> TRUE, map |-> (computeSha1("c2") :> CachedUrl)]
                 ELSE NoFile
  /\ resetCalls = 0
  /\ store = NoStore
  /\ call = NoCall
  /\ nCalls = 0
  /\ got = NoGot
  /\ arg = NoArg
  /\ ret = NoRet
  /\ now = StartMs
  /\ tmpFile = NoFile
  /\ pluginCreatedFiles = {}
  /\ createdTimers = {}
  /\ uploadingPaths = {}
  /\ shownMissingAutoUploadWarning = FALSE
  /\ SessionAtLoad(0)
  /\ nAtt = 0
  /\ urlSeq = 0

Looking == \E i \in Slots : CacheGetDone(i)

Releasing ==
  \/ \E i \in Slots : ReleasePath(i)
  \/ Tick

NextWarn == EventsInTurn \/ Reading \/ Looking \/ Releasing \/ resetAutoUploadWarnings

SpecWarn == InitWarn /\ [][NextWarn]_vars

\* CloudinaryCache alone, called by one caller at a time, on a file that
\* another tool may have written
CacheSettings ==
  {s \in SettingsSet : /\ s.autoUploadOnFileAdd /\ ~s.localCopyEnabled
                        /\ ~s.deleteSourceAfterUpload}

OldEntry == CacheEntry("u1", "id", "f", "t0", "other-tool")
PartEntry == CacheEntry("u1", Undefined, "f", Null, Undefined)
NoUrlEntry == CacheEntry(Undefined, Null, Undefined, Undefined, Undefined)

StoredEntries == {LegacyEntry("u1"), OldEntry, PartEntry, NoUrlEntry, NullEntry}

CacheFiles ==
  {Absent, NotJson, JsonNull, JsonNumber}
    \cup {JsonObject(m) : m \in UNION {[D -> StoredEntries] : D \in SUBSET CacheHashes}}

InitCache ==
  /\ settings \in CacheSettings
  /\ store \in {[cache |-> f, tmp |-> Absent] : f \in CacheFiles}
  /\ call = NoCall
  /\ nCalls = 0
  /\ got = NoGot
  /\ arg = NoArg
  /\ ret = NoRet
  /\ att = [i \in 1..MaxEvents |-> Idle]
  /\ vault = Dropped(StartFiles)
  /\ doc = {}
  /\ resetCalls = 0
  /\ now = StartMs
  /\ cacheFile = NoFile
  /\ tmpFile = NoFile
  /\ pluginCreatedFiles = {}
  /\ createdTimers = {}
  /\ uploadingPaths = {}
  /\ shownMissingAutoUploadWarning = FALSE
  /\ SessionAtLoad(0)
  /\ nAtt = 0
  /\ urlSeq = 0

CacheCalls ==
  \/ CallReadCache
  \/ \E h \in CacheHashes : CallGetEntry(h)
  \/ \E h \in CacheHashes : CallAddEntry(h, "u2")

CacheReads == CacheExists \/ CacheRead \/ CacheReadFails

CacheWrites == CacheWriteTemp \/ CacheRemovePrimary \/ CacheCopyTemp \/ CacheRemoveTemp

NextCache == CacheCalls \/ CacheReads \/ CacheWrites

SpecCache == InitCache /\ [][NextCache]_vars

\* A helper function called on its own: the pipeline is at rest
AtRest ==
  /\ settings \in {t \in SettingsSet : ~t.autoUploadOnFileAdd /\ ~t.localCopyEnabled}
  /\ att = [i \in 1..MaxEvents |-> Idle]
  /\ vault = Dropped(StartFiles)
  /\ doc = {}
  /\ resetCalls = 0
  /\ store = NoStore
  /\ call = NoCall
  /\ nCalls = 0
  /\ got = NoGot
  /\ now = StartMs
  /\ cacheFile = NoFile
  /\ tmpFile = NoFile
  /\ pluginCreatedFiles = {}
  /\ createdTimers = {}
  /\ uploadingPaths = {}
  /\ shownMissingAutoUploadWarning = FALSE
  /\ SessionAtLoad(0)
  /\ nAtt = 0
  /\ urlSeq = 0

\* the folder settings that a user, or another tool, can have typed
PathChars == {"a", ".", "/", "\\", ":"}
FolderInputs == UNION {[1..n -> PathChars] : n \in 0..MaxLen}

InitFolder ==
  /\ AtRest
  /\ arg \in {[fn |-> "sanitizeFolderPath", value |-> v] : v \in FolderInputs}
  /\ ret = NoRet

NextFolder == SanitizeCalled

SpecFolder == InitFolder /\ [][NextFolder]_vars

\* replaceImageReference called on a note of a few occurrences, for the file
\* 'n/my img.png', with a hosted URL or with the path of a local copy
TheFile ==
  [path |-> <<"n", "/", "my", " ", "img", ".png">>,
   name |-> <<"my", " ", "img", ".png">>,
   basename |-> <<"my", " ", "img">>]

HostedUrl == <<"https://", "host", "/", "v1", ".png">>
CopyPath == <<"a", "/", "my", " ", "img", ".png">>

Targets ==
  {TheFile.path, TheFile.name, TheFile.basename, encodeURI(TheFile.path),
   encodeURI(TheFile.name), <<"o", "/", "my", " ", "img", ".png">>,
   <<"other", ".png">>}

Alts == {<<>>, <<"alt">>, <<"|", "100">>}

Tokens ==
  {Token("md", a, t) : a \in Alts, t \in Targets}
    \cup {Token("wiki", a, t) : a \in {<<>>, <<"|", "alt">>}, t \in Targets}
    \cup {Token("text", <<>>, TheFile.name)}

InitReplace ==
  /\ AtRest
  /\ arg \in {[fn |-> "replaceImageReference", view |-> v, content |-> c,
                file |-> TheFile, replacementUrl |-> u] :
                  v \in BOOLEAN, u \in {HostedUrl, CopyPath},
                  c \in UNION {[1..n -> Tokens] : n \in 1..MaxTokens}}
  /\ ret = NoRet

NextReplace == ReplaceCalled

SpecReplace == InitReplace /\ [][NextReplace]_vars

\* replaceImageReference called, for the same file, on a note that names the
\* file and another file, 'o/x-my img.png', whose name ends with the name of
\* the file
NearTarget == <<"o", "/", "x-", "my", " ", "img", ".png">>

NearTokens ==
  {Token("md", a, t) : a \in {<<>>, <<"alt">>}, t \in {TheFile.path, NearTarget}}
    \cup {Token("wiki", <<>>, t) : t \in {TheFile.name, NearTarget}}

InitNear ==
  /\ AtRest
  /\ arg \in {[fn |-> "replaceImageReference", view |-> v, content |-> c,
                file |-> TheFile, replacementUrl |-> u] :
                  v \in BOOLEAN, u \in {HostedUrl, CopyPath},
                  c \in UNION {[1..n -> NearTokens] : n \in 1..MaxTokens}}
  /\ ret = NoRet

SpecNear == InitNear /\ [][NextReplace]_vars

\* A session in which the events reach handleFileCreate one after the other
\* and any awaited call may throw: upload with a preset, a shared cache and a
\* local copy, the sources deleted or kept
FaultSettings ==
  {s \in SettingsSet : s.autoUploadOnFileAdd /\ s.cacheFilePath /\ s.localCopyEnabled}

InitFault ==
  /\ settings \in FaultSettings
  /\ att = [i \in 1..MaxEvents |-> Idle]
  /\ vault = Dropped(StartFiles)
  /\ doc = Embeds({P(Notes, "x", "png"), P(Notes, "w", "png")}, {P(Notes, "y", "png")})
  /\ resetCalls = 0
  /\ store = NoStore
  /\ call = NoCall
  /\ nCalls = 0
  /\ got = NoGot
  /\ arg = NoArg
  /\ ret = NoRet
  /\ now = StartMs
  /\ cacheFile = NoFile
  /\ tmpFile = NoFile
  /\ pluginCreatedFiles = {}
  /\ createdTimers = {}
  /\ uploadingPaths = {}
  /\ shownMissingAutoUploadWarning = FALSE
  /\ nAtt = 0
  /\ urlSeq = 0
  /\ editor = "ok"
  /\ triedAutoCreatePreset = FALSE
  /\ shownAutoCreatePresetWarning = FALSE
  /\ hfc = [k \in 1..MaxEvents |-> NoHandler]
  /\ presetResets = 0

HandlersQuiet == \A k \in Handlers : hfc[k].pc \in {"idle", "returned"}

HandlersInTurn == \E p \in DOMAIN vault : HandlersQuiet /\ HandleFileCreate(p)

Handling ==
  \/ \E k \in Handlers : ImportThrows(k)
  \/ \E k \in Handlers : PresetTried(k)
  \/ \E k \in Handlers : ProcessCalled(k)
  \/ \E k \in Handlers : ProcessSettled(k)

UploadEnds ==
  \/ \E i \in Slots : UploadOk(i)
  \/ \E i \in Slots : \E m \in UploadErrors : UploadThrows(i, m)

Throwing ==
  \/ \E i \in Slots : ReadThrows(i)
  \/ \E i \in Slots : HashThrows(i)
  \/ \E i \in Slots : CacheGetFaulted(i)
  \/ \E i \in Slots : CacheGetRejects(i)
  \/ \E i \in Slots : AddEntryRejects(i)
  \/ \E i \in Slots : WriteTempThrows(i)
  \/ \E i \in Slots : CopyTempThrows(i)
  \/ \E i \in Slots : CreateFolderThrows(i)
  \/ \E i \in Slots : CreateThrows(i)
  \/ \E i \in Slots : DeleteThrows(i)

\* the editor fails while a call of processFileCreate is under way, and works
\* again before the next event
EditorChanges ==
  \/ (\E i \in Slots : Active(i)) /\ EditorFails
  \/ HandlersQuiet /\ EditorRecovers

NextFault ==
  \/ HandlersInTurn \/ Handling \/ Reading \/ UploadEnds \/ Caching \/ Copying
  \/ Deleting \/ Throwing \/ EditorChanges

SpecFault == InitFault /\ [][NextFault]_vars

\* A session in which the calls of handleFileCreate overlap and no upload
\* preset is configured: with the API key and secret stored, or without them
PresetSettings ==
  [autoUploadOnFileAdd : {TRUE}, cloudName : {TRUE}, cacheFilePath : {FALSE},
   uploadPreset : {FALSE}, signed : BOOLEAN, maxAutoUploadSizeMB : {1},
   localCopyEnabled : {FALSE}, localCopyFolder : {<<"a", "/">>},
   deleteSourceAfterUpload : {FALSE}]

\* an image, and a note that is created next to it
PresetFiles == (P(Notes, "x", "png") :> "c1") @@ (P(Notes, "n", "md") :> "c2")

InitPreset ==
  /\ settings \in PresetSettings
  /\ att = [i \in 1..MaxEvents |-> Idle]
  /\ vault = Dropped(PresetFiles)
  /\ doc = Embeds({P(Notes, "x", "png")}, {})
  /\ resetCalls = 0
  /\ store = NoStore
  /\ call = NoCall
  /\ nCalls = 0
  /\ got = NoGot
  /\ arg = NoArg
  /\ ret = NoRet
  /\ now = StartMs
  /\ cacheFile = NoFile
  /\ tmpFile = NoFile
  /\ pluginCreatedFiles = {}
  /\ createdTimers = {}
  /\ uploadingPaths = {}
  /\ shownMissingAutoUploadWarning = FALSE
  /\ nAtt = 0
  /\ urlSeq = 0
  /\ editor = "ok"
  /\ triedAutoCreatePreset = FALSE
  /\ shownAutoCreatePresetWarning = FALSE
  /\ hfc = [k \in 1..MaxEvents |-> NoHandler]
  /\ presetResets = 0

Arrivals == \E p \in DOMAIN vault : HandleFileCreate(p)

PresetAnswers ==
  \/ \E k \in Handlers : \E res \in BOOLEAN : EnsureReturns(k, res)
  \/ \E k \in Handlers : EnsureThrows(k)
  \/ \E k \in Handlers : SaveDone(k)
  \/ \E k \in Handlers : SaveThrows(k)

\* the upload of the image succeeds (SpecFault follows the uploads that fail)
Uploaded == \E i \in Slots : UploadOk(i)

NextPreset ==
  \/ Arrivals \/ Handling \/ PresetAnswers \/ resetAutoCreatePresetState
  \/ Reading \/ Uploaded

SpecPreset == InitPreset /\ [][NextPreset]_vars

\* A session, its events handled one after the other, with the automatic
\* behaviour switched off, as it is in
\* DEFAULT_SETTINGS: auto-upload is off or no cloud name is set, and the local
\* copy is off or no folder is set.  The note does not name w.
DefaultSettings ==
  {s \in [autoUploadOnFileAdd : BOOLEAN, cloudName : BOOLEAN, cacheFilePath : BOOLEAN,
          uploadPreset : BOOLEAN, signed : BOOLEAN, maxAutoUploadSizeMB : {1},
          localCopyEnabled : BOOLEAN, localCopyFolder : {<<>>, <<"a", "/">>},
          deleteSourceAfterUpload : BOOLEAN] :
     /\ ~s.autoUploadOnFileAdd \/ ~s.cloudName
     /\ ~s.localCopyEnabled \/ s.localCopyFolder = <<>>}

DefaultDoc == Embeds({P(Notes, "x", "png")}, {P(Notes, "y", "png")})

InitDefault ==
  /\ settings \in DefaultSettings
  /\ att = [i \in 1..MaxEvents |-> Idle]
  /\ vault = Dropped(StartFiles)
  /\ doc = DefaultDoc
  /\ resetCalls = 0
  /\ store = NoStore
  /\ call = NoCall
  /\ nCalls = 0
  /\ got = NoGot
  /\ arg = NoArg
  /\ ret = NoRet
  /\ now = StartMs
  /\ cacheFile = NoFile
  /\ tmpFile = NoFile
  /\ pluginCreatedFiles = {}
  /\ createdTimers = {}
  /\ uploadingPaths = {}
  /\ shownMissingAutoUploadWarning = FALSE
  /\ nAtt = 0
  /\ urlSeq = 0
  /\ editor = "ok"
  /\ triedAutoCreatePreset = FALSE
  /\ shownAutoCreatePresetWarning = FALSE
  /\ hfc = [k \in 1..MaxEvents |-> NoHandler]
  /\ presetResets = 0

Polling == \E i \in Slots : PollWake(i)

NextDefault == HandlersInTurn \/ Handling \/ Reading \/ Polling

SpecDefault == InitDefault /\ [][NextDefault]_vars

\* A session, its events handled one after the other, with a shared cache that
\* holds an entry for the bytes of w as it starts: an entry with a URL, or an
\* entry without one.  The credentials are there or not, the size limit of
\* 1 MB is set or not.
HitSettings ==
  {[s EXCEPT !.uploadPreset = u, !.signed = g, !.maxAutoUploadSizeMB = m] :
     s \in {t \in SettingsSet : t.autoUploadOnFileAdd /\ t.cacheFilePath},
     u \in BOOLEAN, g \in BOOLEAN, m \in {0, 1}}

HitCaches == {computeSha1("c2") :> CachedUrl, computeSha1("c2") :> 0}

InitHit ==
  /\ settings \in HitSettings
  /\ att = [i \in 1..MaxEvents |-> Idle]
  /\ vault = Dropped(StartFiles)
  /\ doc = Embeds(DOMAIN StartFiles, {})
  /\ \E m \in HitCaches : cacheFile = [ex |-> TRUE, map |-> m]
  /\ resetCalls = 0
  /\ store = NoStore
  /\ call = NoCall
  /\ nCalls = 0
  /\ got = NoGot
  /\ arg = NoArg
  /\ ret = NoRet
  /\ now = StartMs
  /\ tmpFile = NoFile
  /\ pluginCreatedFiles = {}
  /\ createdTimers = {}
  /\ uploadingPaths = {}
  /\ shownMissingAutoUploadWarning = FALSE
  /\ SessionAtLoad(0)
  /\ nAtt = 0
  /\ urlSeq = 0

NextHit == EventsInTurn \/ Reading \/ UploadEnds \/ Caching \/ Copying \/ Deleting

SpecHit == InitHit /\ [][NextHit]_vars

\* A session, its events handled one after the other, with the local copy on:
\* with an upload preset (w is larger than the size limit of 1 MB) or with
\* nothing to upload with.  The local-copy folder is empty as the session
\* starts, or it holds a file with the name of w and other bytes.
SkipSettings ==
  {[s EXCEPT !.uploadPreset = u] :
     s \in {t \in SettingsSet : t.autoUploadOnFileAdd /\ t.localCopyEnabled},
     u \in BOOLEAN}

InitSkip ==
  /\ settings \in SkipSettings
  /\ att = [i \in 1..MaxEvents |-> Idle]
  /\ vault \in {Dropped(StartFiles), Dropped(StartFiles @@ FolderFiles)}
  /\ doc = Embeds(DOMAIN StartFiles, {})
  /\ InitSession

NextSkip == EventsInTurn \/ Reading \/ UploadEnds \/ Caching \/ Copying \/ Deleting

SpecSkip == InitSkip /\ [][NextSkip]_vars

\* A session, its events handled one after the other, with the local copy on
\* and a folder that sanitizeFolderPath turns down: '/a', '../a' or 'C:/a'.
\* The folder 'a' is empty as the session starts, or it holds a file with the
\* bytes of x and y.
BadFolders == {<<"/", "a">>, <<".", ".", "/", "a">>, <<"C", ":", "/", "a">>}

BadFolderSettings ==
  {[s EXCEPT !.localCopyFolder = f] :
     s \in {t \in SettingsSet : t.localCopyEnabled}, f \in BadFolders}

InitBadFolder ==
  /\ settings \in BadFolderSettings
  /\ att = [i \in 1..MaxEvents |-> Idle]
  /\ vault \in {Dropped(StartFiles), Dropped(StartFiles @@ FolderFiles)}
  /\ doc = Embeds(DOMAIN StartFiles, {})
  /\ InitSession

\* findExistingIllustration returns; handleLocalCopy, when it is called,
\* returns before its first await
Scanning ==
  \/ \E i \in Slots : ScanDone(i)
  \/ \E i \in Slots : FolderCreated(i)

NextBadFolder == EventsInTurn \/ Reading \/ UploadEnds \/ Caching \/ Scanning \/ Deleting

SpecBadFolder == InitBadFolder /\ [][NextBadFolder]_vars

\* A session in which every awaited call returns or throws, and every timer
\* fires: upload without a cache and without a local copy, the sources deleted
\* or kept.  The note names x and does not name w.
LiveSettings ==
  {s \in SettingsSet : s.autoUploadOnFileAdd /\ ~s.cacheFilePath /\ ~s.localCopyEnabled}

InitLive ==
  /\ settings \in LiveSettings
  /\ att = [i \in 1..MaxEvents |-> Idle]
  /\ vault = Dropped(LoopFiles)
  /\ doc = Embeds({P(Notes, "x", "png")}, {})
  /\ InitSession

\* the awaited calls of this session that throw
Failing ==
  \/ \E i \in Slots : ReadThrows(i)
  \/ \E i \in Slots : HashThrows(i)
  \/ \E i \in Slots : DeleteThrows(i)

Released == \E i \in Slots : ReleasePath(i)

\* what the event loop does without any new event: the awaited calls settle,
\* the sleeps end, the timers fire
Progress ==
  \/ Reading \/ Polling \/ UploadEnds \/ Deleting \/ Failing \/ Released \/ TimePasses

NextLive == Events \/ Progress

SpecLive == InitLive /\ [][NextLive]_vars /\ WF_vars(Progress)

\* A session, its events handled one after the other, in which the user closes
\* and opens the note, and whose editor has a setValue function or has none.
\* Files are uploaded, copied or not, their source deleted or not.
EditorSettings ==
  {s \in SettingsSet : s.autoUploadOnFileAdd /\ ~s.cacheFilePath}

InitEditor ==
  /\ settings \in EditorSettings
  /\ att = [i \in 1..MaxEvents |-> Idle]
  /\ vault = Dropped(StartFiles)
  /\ doc = Embeds(DOMAIN StartFiles, {})
  /\ editor \in {"ok", "readonly"}
  /\ cacheFile = NoFile
  /\ resetCalls = 0
  /\ store = NoStore
  /\ call = NoCall
  /\ nCalls = 0
  /\ got = NoGot
  /\ arg = NoArg
  /\ ret = NoRet
  /\ now = StartMs
  /\ tmpFile = NoFile
  /\ pluginCreatedFiles = {}
  /\ createdTimers = {}
  /\ uploadingPaths = {}
  /\ shownMissingAutoUploadWarning = FALSE
  /\ triedAutoCreatePreset = FALSE
  /\ shownAutoCreatePresetWarning = FALSE
  /\ hfc = <<>>
  /\ presetResets = 0
  /\ nAtt = 0
  /\ urlSeq = 0

Viewing == ViewCloses \/ ViewOpens

\* A session, its events handled one after the other, in which every upload
\* is followed by the deletion of the source.  The note names x in one of the
\* forms the reference check accepts: an embed by path, name or basename, a
\* link '[[name]]' that embeds nothing, or the bare name or path in the text.
Forms ==
  LET x == P(Notes, "x", "png")
  IN {PathRef("md", x), PathRef("md", NameOf(x)),
      PathRef("wiki", NameOf(x)), PathRef("wiki", BaseOf(x)),
      PathRef("link", NameOf(x)), PathRef("link", BaseOf(x)),
      PathRef("text", NameOf(x)), PathRef("text", x)}

FormSettings ==
  {s \in SettingsSet :
     s.autoUploadOnFileAdd /\ ~s.cacheFilePath /\ s.deleteSourceAfterUpload}

InitForms ==
  /\ settings \in FormSettings
  /\ att = [i \in 1..MaxEvents |-> Idle]
  /\ vault = Dropped(StartFiles)
  /\ \E t \in Forms : doc = {t}
  /\ cacheFile = NoFile
  /\ resetCalls = 0
  /\ store = NoStore
  /\ call = NoCall
  /\ nCalls = 0
  /\ got = NoGot
  /\ arg = NoArg
  /\ ret = NoRet
  /\ now = StartMs
  /\ tmpFile = NoFile
  /\ pluginCreatedFiles = {}
  /\ createdTimers = {}
  /\ uploadingPaths = {}
  /\ shownMissingAutoUploadWarning = FALSE
  /\ SessionAtLoad(0)
  /\ nAtt = 0
  /\ urlSeq = 0

NextForms == EventsInTurn \/ Reading \/ Polling \/ Uploaded \/ Copying \/ Deleting

SpecForms == InitForms /\ [][NextForms]_vars

\* A session in which the calls overlap and two images with different bytes
\* are uploaded with a shared cache, which holds an entry for other bytes as
\* the session starts.  The local copy is on or off.
EarlierEntries == computeSha1("c2") :> CachedUrl

SharedSettings ==
  {s \in SettingsSet :
     s.autoUploadOnFileAdd /\ s.cacheFilePath /\ ~s.deleteSourceAfterUpload}

InitShared ==
  /\ settings \in SharedSettings
  /\ att = [i \in 1..MaxEvents |-> Idle]
  /\ vault = Dropped(SmallFiles)
  /\ doc = Embeds(DOMAIN SmallFiles, {})
  /\ cacheFile = [ex |-> TRUE, map |-> EarlierEntries]
  /\ resetCalls = 0
  /\ store = NoStore
  /\ call = NoCall
  /\ nCalls = 0
  /\ got = NoGot
  /\ arg = NoArg
  /\ ret = NoRet
  /\ now = StartMs
  /\ tmpFile = NoFile
  /\ pluginCreatedFiles = {}
  /\ createdTimers = {}
  /\ uploadingPaths = {}
  /\ shownMissingAutoUploadWarning = FALSE
  /\ SessionAtLoad(0)
  /\ nAtt = 0
  /\ urlSeq = 0

NextShared == Events \/ Reading \/ Uploaded \/ Caching \/ Copying

SpecShared == InitShared /\ [][NextShared]_vars

\* A session in which the calls overlap and two images of one name are copied:
\* the local-copy folder is empty as the session starts, or it holds a third
\* file of that name.
InitNamesake ==
  /\ settings \in LoopSettings
  /\ att = [i \in 1..MaxEvents |-> Idle]
  /\ vault \in {Dropped(NamesakeFiles), Dropped(NamesakeFiles @@ FolderFiles)}
  /\ doc = Embeds(DOMAIN NamesakeFiles, {})
  /\ InitSession

NextNamesake == Events \/ Reading \/ Uploading \/ Copying \/ Timers

SpecNamesake == InitNamesake /\ [][NextNamesake]_vars

NextEditor ==
  EventsInTurn \/ Reading \/ Polling \/ UploadEnds \/ Copying \/ Deleting \/ Viewing

SpecEditor == InitEditor /\ [][NextEditor]_vars

---------------------------------------------------------------------------
(* Properties *)

\* what a call has done that can be seen from outside
NoEffects(a) ==
  /\ a.reads = 0
  /\ a.uploadCalls = 0
  /\ a.creates = {}
  /\ a.edits = 0
  /\ a.deleteCalls = 0

\* the call is past the cache check and the size check of handleUpload
PastUploadGate(a) == a.pc \notin {"idle", "sleep", "read", "cacheGet"}

CountNotes(a, msg) == Cardinality({k \in DOMAIN a.notes : a.notes[k] = msg})

\* a step in which a file-created event for p passes the guards
Admits(p) == nAtt' = nAtt + 1 /\ att'[nAtt'].file = p

\* a file-created event for p would pass the guards but for the one named
OnlyGuard(p, outcome) ==
  /\ p \in DOMAIN vault
  /\ GuardOutcome(p) = outcome
  /\ Referenced(doc, p)
  /\ nAtt < Len(att)

\* call i ran before call j, for another path with the same bytes, and ended
\* with a successful upload
UploadedBefore(i, j) ==
  /\ i < j
  /\ settings.cacheFilePath
  /\ att[i].file # att[j].file
  /\ att[i].fileHash # ""
  /\ att[i].fileHash = att[j].fileHash
  /\ att[i].uploadedUrl # 0
  /\ ~att[i].fromCache
  /\ PastUploadGate(att[j])

\* C1: with a cache path configured, when two calls for files with the same
\* bytes and different paths run one after the other and the first ends with a
\* successful upload, upload is called once in total: the second call is a
\* cache hit and uses the URL returned to the first.
C1_SecondIsCacheHit ==
  \A i, j \in Slots :
    UploadedBefore(i, j) =>
      /\ att[i].uploadCalls = 1
      /\ att[j].uploadCalls = 0
      /\ att[j].fromCache
      /\ att[j].uploadedUrl = att[i].uploadedUrl

C1_Witness ==
  \E i, j \in Slots :
    /\ UploadedBefore(i, j)
    /\ att[j].pc = "done"
    /\ att[j].fromCache
    /\ UrlRef(att[i].uploadedUrl) \in doc

\* the local-copy folder holds an image with the bytes call i has read
SameBytesInFolder(i) ==
  \E q \in DOMAIN vault :
    /\ q.dir = att[i].folder
    /\ q.ext \in IMAGE_EXTENSIONS
    /\ computeSha1(vault[q].content) = att[i].fileHash

\* C3: when the local-copy folder holds an image with the bytes of the new
\* file, under any name, the call makes no createBinary call and takes that
\* file as the local copy: the references are rewritten to it (or to the URL)
\* and the source is deleted or kept on its account.
C3_ExistingCopyUsed ==
  [][\A i \in Slots :
       (att[i].pc = "scan" /\ att'[i].pc # "scan" /\ SameBytesInFolder(i)) =>
         LET a == att'[i]
             target == IF a.uploadedUrl # 0 THEN UrlRef(a.uploadedUrl)
                       ELSE PathRef("md", a.localFile)
         IN /\ a.localFile \in DOMAIN vault
            /\ a.localFile.dir = att[i].folder
            /\ computeSha1(vault[a.localFile].content) = a.fileHash
            /\ a.creates = {}
            /\ a.pc \in {"deleting", "done"}
            /\ vault' = vault
            /\ \A t \in doc : RegexMatches(t, a.file) => (t = target \/ t \notin doc')
            /\ \A t \in doc : RegexMatches(t, a.file) => target \in doc'
            /\ (a.pc = "deleting") <=>
                 (settings.deleteSourceAfterUpload /\ a.uploadedUrl # 0
                    /\ a.file # a.localFile)]_vars

C3_Witness ==
  \E i \in Slots :
    /\ att[i].pc = "done"
    /\ att[i].creates = {}
    /\ att[i].localFile \in DOMAIN vault
    /\ NameOf(att[i].localFile) # NameOf(att[i].file)
    /\ att[i].uploadedUrl = 0
    /\ PathRef("md", att[i].localFile) \in doc

C9_OldFileSkipped ==
  /\ [](\A p \in DOMAIN vault :
          (p.ext \in IMAGE_EXTENSIONS /\ now - vault[p].ctime > StartupAgeMs) =>
            GuardOutcome(p) = "old")
  /\ [][\A p \in DOMAIN vault :
          (p.ext \in IMAGE_EXTENSIONS /\ now - vault[p].ctime > StartupAgeMs) =>
            /\ ~Admits(p)
            /\ p \in uploadingPaths' => p \in uploadingPaths]_vars

C9_Witness ==
  \E p \in DOMAIN vault :
    /\ OnlyGuard(p, "old")
    /\ now - vault[p].ctime > StartupAgeMs
    /\ p \notin uploadingPaths
    /\ p \notin pluginCreatedFiles
    /\ \A i \in Slots : att[i].file # p

\* C10: with a positive maxAutoUploadSizeMB = M, upload permitted and no cache
\* hit, upload is called if and only if the file has at most M*1024*1024
\* bytes; a larger file causes no upload call and one skip notification.
C10_SizeLimit ==
  \A i \in Slots :
    (/\ settings.maxAutoUploadSizeMB > 0
     /\ settings.autoUploadOnFileAdd /\ settings.cloudName /\ settings.uploadPreset
     /\ PastUploadGate(att[i])
     /\ ~att[i].fromCache
     /\ att[i].file \in DOMAIN vault) =>
      LET bytes == ByteLength(vault[att[i].file].content)
          limit == settings.maxAutoUploadSizeMB * 1024 * 1024
      IN /\ (att[i].uploadCalls = 1) <=> (bytes <= limit)
         /\ (att[i].uploadCalls = 0) <=> (bytes > limit)
         /\ CountNotes(att[i], "size") = (IF bytes > limit THEN 1 ELSE 0)

C10_Witness ==
  /\ settings.maxAutoUploadSizeMB = 1
  /\ \E i, j \in Slots :
       /\ att[i].pc = "done" /\ att[j].pc = "done"
       /\ ByteLength(vault[att[i].file].content) = 1024 * 1024
       /\ att[i].uploadCalls = 1
       /\ ByteLength(vault[att[j].file].content) = 1024 * 1024 + 1
       /\ att[j].uploadCalls = 0
       /\ att[j].notes = <<"size">>

\* the calls that have called upload for bytes with hash h
Uploaders(h) == {i \in Slots : att[i].fileHash = h /\ att[i].uploadCalls > 0}

\* C2: with a cache path configured, for every interleaving of the calls
\* (calls for different paths with the same bytes that overlap at the cache
\* read, the upload or the cache write included), upload is called at most
\* once for each content hash.
C2_OneUploadPerHash ==
  settings.cacheFilePath =>
    \A i \in Slots : \A j \in Uploaders(att[i].fileHash) :
      att[i].uploadCalls > 0 => (j = i /\ att[i].uploadCalls = 1)

\* the images of the local-copy folder
FolderImages ==
  {q \in DOMAIN vault : /\ q.dir = IntakeFolder(settings.localCopyFolder)
                        /\ q.ext \in IMAGE_EXTENSIONS}

\* C4: for every interleaving of the calls with the local copy enabled, the
\* local-copy step never leaves two files with the same content hash in the
\* destination folder.
C4_NoTwinCopies ==
  settings.localCopyEnabled =>
    \A p, q \in FolderImages :
      computeSha1(vault[p].content) = computeSha1(vault[q].content) => p = q

\* the paths the local-copy step has called createBinary for
WrittenPaths == UNION {att[i].creates : i \in Slots}

\* C5 (as stated): the file-created event for a path the local-copy step has
\* written, whenever it fires, makes processFileCreate return with no upload
\* call, no file write, no edit of the note and no deletion.
C5_CopiesNeverTakenIn ==
  \A i \in Slots :
    att[i].file \in WrittenPaths =>
      /\ att[i].uploadCalls = 0
      /\ att[i].creates = {}
      /\ att[i].edits = 0
      /\ att[i].deleteCalls = 0

\* C5 (amended): every path the local-copy step writes is added to the
\* created-by-plugin set before createBinary is called for it, and no file
\* appears in the vault otherwise; the entry is removed 10 seconds after it
\* was added, and a file-created event for the path that fires while the
\* entry is in the set makes processFileCreate return with nothing read,
\* uploaded, written, edited or deleted.
C5_MarkedWhileInSet ==
  /\ [](\A p \in pluginCreatedFiles \cap DOMAIN vault : GuardOutcome(p) \in {"old", "loop"})
  /\ [][/\ \A i \in Slots :
             (att[i].pc = "destCheck" /\ att'[i].pc = "creating") =>
               /\ att'[i].dest \in pluginCreatedFiles'
               /\ att'[i].dest \notin DOMAIN vault
               /\ \E t \in createdTimers' :
                    t.path = att'[i].dest /\ t.at = now + PluginCreatedTtlMs
        /\ \A p \in (DOMAIN vault') \ (DOMAIN vault) :
             \E i \in Slots : att[i].pc = "creating" /\ att[i].dest = p /\ p \in att[i].creates
        /\ \A p \in (pluginCreatedFiles \ pluginCreatedFiles') :
             \E t \in createdTimers : t.path = p /\ now >= t.at
        /\ \A p \in pluginCreatedFiles : ~Admits(p)]_vars

C5_Witness ==
  \E p \in WrittenPaths \cap pluginCreatedFiles :
    /\ OnlyGuard(p, "loop")
    /\ p \notin uploadingPaths
    /\ \E i \in Slots : p \in att[i].creates /\ att[i].localFile = p /\ att[i].pc = "done"

\* call i is past the re-entry guard and its path is not yet released
PastGuard(i) == att[i].pc \notin {"idle", "released"}

\* C6: for every interleaving of the file-created events, at most one call for
\* a path is past the re-entry guard at a time: a call for a path that is in
\* the in-flight set returns with nothing read, uploaded, copied, edited or
\* deleted.
C6_OneCallPerPath ==
  /\ [](\A i, j \in Slots :
          /\ (PastGuard(i) /\ PastGuard(j) /\ att[i].file = att[j].file) => i = j
          /\ PastGuard(i) => att[i].file \in uploadingPaths)
  /\ [](\A p \in uploadingPaths \cap DOMAIN vault : GuardOutcome(p) # "admitted")
  /\ [][\A p \in uploadingPaths : ~Admits(p)]_vars

C6_Witness ==
  \E i \in Slots :
    /\ Active(i)
    /\ att[i].reads = 1
    /\ OnlyGuard(att[i].file, "inflight")
    /\ now - vault[att[i].file].ctime <= StartupAgeMs

\* C7: for every interleaving of the calls, the number of uploads in progress
\* at the same time never exceeds the ceiling of 3.
C7_CeilingKept ==
  Cardinality({i \in Slots : att[i].pc = "uploading"}) <= MAX_CONCURRENT_UPLOADS

\* the 'Auto-upload skipped' notifications shown so far
RECURSIVE MissingNotes(_)
MissingNotes(n) ==
  IF n = 0 THEN 0 ELSE CountNotes(att[n], "missing") + MissingNotes(n - 1)

\* nothing to upload with: handleUpload comes to the check of the credentials
NothingToUploadWith ==
  /\ settings.autoUploadOnFileAdd /\ settings.cloudName
  /\ ~settings.uploadPreset /\ ~settings.signed

\* call i comes to the check of the credentials in this step
ReachesCheck(i) ==
  /\ NothingToUploadWith
  /\ \/ /\ att[i].pc = "read" /\ att'[i].pc # "read"
        /\ ~settings.cacheFilePath
        /\ att'[i].fileHash # ""
     \/ /\ att[i].pc = "cacheGet" /\ att'[i].pc # "cacheGet"
        /\ ~att'[i].fromCache

\* C11: with auto-upload on and neither an upload preset nor signed
\* credentials, the calls that come to the check between two calls of
\* resetAutoUploadWarnings produce one 'Auto-upload skipped' notification, at
\* the first of them; after resetAutoUploadWarnings the next one produces it
\* once more.
C11_WarnedOncePerSession ==
  /\ [](NothingToUploadWith =>
          /\ MissingNotes(Len(att)) <= resetCalls + 1
          /\ shownMissingAutoUploadWarning => MissingNotes(Len(att)) >= 1
          /\ \A i \in Slots : att[i].uploadCalls = 0)
  /\ [][/\ \A i \in Slots :
             ReachesCheck(i) =>
               /\ shownMissingAutoUploadWarning'
               /\ MissingNotes(Len(att))' =
                    MissingNotes(Len(att)) + (IF shownMissingAutoUploadWarning THEN 0 ELSE 1)
        /\ (MissingNotes(Len(att))' # MissingNotes(Len(att))) =>
             \E i \in Slots : ReachesCheck(i)
        /\ (resetCalls' # resetCalls) => ~shownMissingAutoUploadWarning'
        /\ (shownMissingAutoUploadWarning /\ ~shownMissingAutoUploadWarning') =>
             resetCalls' = resetCalls + 1]_vars

C11_Witness ==
  /\ NothingToUploadWith
  /\ resetCalls = 1
  /\ \E i, j, k \in Slots :
       /\ i < j /\ j < k
       /\ att[i].notes = <<"missing">>
       /\ att[j].notes = <<>> /\ att[j].reads = 1 /\ ~att[j].fromCache /\ att[j].pc = "done"
       /\ att[k].notes = <<"missing">>

\* C12: once the shared cache holds an entry for a hash, no call replaces it
\* by an entry with another url: a writeCache that is about to remove the
\* cache file and to copy its own map over it has, for every hash of the file,
\* the url of the file.
C12_EntryUrlKept ==
  \A i \in Slots :
    (att[i].pc = "wRemove" /\ cacheFile.ex) =>
      \A h \in DOMAIN cacheFile.map :
        h \in DOMAIN att[i].mem => att[i].mem[h] = cacheFile.map[h]

\* C13: readCache never throws: it returns the empty map when the file does
\* not exist, when the cache path is empty, when the content is malformed and
\* when reading fails.
C13_ReadCacheNeverThrows ==
  (call.op = "readCache" /\ call.pc = "returned") =>
    /\ ~call.threw
    /\ (\/ ~settings.cacheFilePath
        \/ store.cache \in {Absent, NotJson, JsonNull}
        \/ call.faulted) => call.map = EmptyMap

\* writeCache is between two of its steps
InWriteCache == call.pc \in {"wTmp", "wRemove", "wCopy", "wRmTmp"}

\* C14: between any two steps of one writeCache call the primary path holds
\* the whole previous content, the whole new map or nothing, and the whole
\* previous content or the whole new map is at the primary or at the temporary
\* path.
C14_WriteKeepsACopy ==
  /\ [](/\ call.pc \in {"wRemove", "wCopy", "wRmTmp"} => store.tmp = JSONstringify(call.map)
        /\ call.pc = "wCopy" => store.cache = Absent
        /\ call.pc = "wRmTmp" => store.cache = JSONstringify(call.map)
        /\ ~InWriteCache => store.tmp = Absent)
  /\ [][/\ (call'.pc \in {"wTmp", "wRemove"}) => store'.cache = store.cache
        /\ (InWriteCache /\ ~InWriteCache') => store'.cache = JSONstringify(call.map)
        /\ (store'.cache # store.cache) => InWriteCache]_vars

C14_Witness ==
  /\ call.op = "addEntry"
  /\ call.pc = "wCopy"
  /\ store.cache = Absent
  /\ store.tmp = JSONstringify(call.map)
  /\ DOMAIN call.map = CacheHashes
  /\ call.map[call.hash] = call.entry

\* readCache has returned a map read from a file of bare strings and objects
ReadMixed ==
  /\ call.op = "readCache" /\ call.pc = "returned" /\ ~call.threw /\ call.sound
  /\ call.data.t = "object"
  /\ \A h \in DOMAIN call.data.map : call.data.map[h].t \in {"string", "object"}

\* C15: for a cache file of legacy bare-string and structured entries,
\* readCache returns every entry structured (a legacy string s as url = s,
\* uploader = 'migrated'), the migrated map is in the file when it returns, and
\* the readCache that follows returns the same map.
C15_MigratedOnce ==
  /\ ReadMixed =>
       /\ DOMAIN call.map = DOMAIN call.data.map
       /\ \A h \in DOMAIN call.map :
            /\ call.map[h].t = "object"
            /\ call.map[h].url = call.data.map[h].url
            /\ call.data.map[h].t = "string" => call.map[h].uploader = "migrated"
            /\ call.data.map[h] = OldEntry => call.map[h] = OldEntry
       /\ store.cache = JSONstringify(call.map)
  /\ (ReadMixed /\ call.last.some) => call.map = call.last.map

C15_Witness ==
  /\ ReadMixed
  /\ call.last.some
  /\ nCalls = 2
  /\ call.data = JSONstringify(call.last.map)
  /\ \E h, g \in CacheHashes :
       /\ DOMAIN call.map = {h, g}
       /\ call.map[h] = CacheEntry("u1", Null, Null, toISOString(1), "migrated")
       /\ call.map[g] = OldEntry

\* getEntry(h) returns in this step, and no adapter.read has failed
GetEntryReturns(h) ==
  /\ call.pc # "returned"
  /\ call'.op = "getEntry" /\ call'.hash = h /\ call'.pc = "returned"
  /\ ~call'.threw /\ call'.sound

\* addEntry or getEntry has been called for h, and has returned
Known(h) == got[h] # NotJson

\* C16: with one caller at a time, getEntry(h) returns the entry of the last
\* addEntry(h, e), whatever was added for other hashes since; it returns what
\* the getEntry(h) before it returned when no entry was added for h since; and
\* it returns null for a hash that was never added and is not in the file.
C16_AddThenGet ==
  [][\A h \in CacheHashes :
       GetEntryReturns(h) =>
         /\ Known(h) => call'.ret = got[h]
         /\ (~Known(h) /\ (store.cache.t # "object" \/ h \notin DOMAIN store.cache.map))
              => call'.ret = NullEntry]_vars

C16_Witness ==
  /\ call.op = "getEntry" /\ call.pc = "returned" /\ call.sound /\ ~call.threw
  /\ nCalls = 3
  /\ \E h \in CacheHashes \ {call.hash} :
       /\ got[h] = CacheEntry("u2", Null, "f", toISOString(2), "obsidian-plugin")
       /\ store.cache.map[h] = got[h]
  /\ call.ret = CacheEntry("u1", Null, Null, toISOString(1), "migrated")
  /\ got[call.hash] = call.ret
  /\ store.cache.map[call.hash] = call.ret

\* what the claims say of an input of sanitizeFolderPath
ContainsDots(v) == \E i \in 1..(Len(v) - 1) : v[i] = "." /\ v[i + 1] = "."
Rooted(v) == v # <<>> /\ v[1] \in {"/", "\\"}
DriveQualified(v) ==
  Len(v) >= 3 /\ v[1] \in Letters /\ v[2] = ":" /\ v[3] \in {"/", "\\"}

\* p is v with '/' for every backslash and without its trailing separators
Tidied(v, p) ==
  \E k \in 0..Len(v) :
    /\ Len(p) = k
    /\ \A i \in 1..k : p[i] = IF v[i] = "\\" THEN "/" ELSE v[i]
    /\ k = 0 \/ p[k] # "/"
    /\ \A j \in (k + 1)..Len(v) : v[j] \in {"/", "\\"}

SanitizeReturned == arg.fn = "sanitizeFolderPath" /\ ret.done

\* C17 as stated: sanitizeFolderPath fails for the inputs that have a '..'
\* segment, that start with a separator or that start with a drive letter,
\* ':' and a separator; for every other input that is not empty it returns the
\* input with '/' for every backslash and without its trailing separators.
C17_RejectsParentSegments ==
  SanitizeReturned =>
    /\ (HasParentSegment(NormalizeSlashes(arg.value)) \/ Rooted(arg.value)
         \/ DriveQualified(arg.value)) => ~ret.ok
    /\ (/\ arg.value # <<>>
        /\ ~HasParentSegment(NormalizeSlashes(arg.value))
        /\ ~Rooted(arg.value) /\ ~DriveQualified(arg.value))
         => ret.ok /\ Tidied(arg.value, ret.path)

\* C17, amended: sanitizeFolderPath fails for the inputs that have two dots
\* in a row anywhere, that start with a separator or that start with a drive
\* letter, ':' and a separator; for every other input that is not empty it
\* returns the input with '/' for every backslash and without its trailing
\* separators.
C17_RejectsDotsAnywhere ==
  SanitizeReturned =>
    /\ (ContainsDots(arg.value) \/ Rooted(arg.value) \/ DriveQualified(arg.value))
         => ~ret.ok
    /\ (/\ arg.value # <<>>
        /\ ~ContainsDots(arg.value) /\ ~Rooted(arg.value) /\ ~DriveQualified(arg.value))
         => ret.ok /\ Tidied(arg.value, ret.path)

C17_Witness ==
  /\ SanitizeReturned
  /\ arg.value = <<"a", ".", ".">>
  /\ ~ret.ok

ReplaceReturned == arg.fn = "replaceImageReference" /\ arg.view /\ ret.done

\* an inline link whose target is the path or the name of the file, plain or
\* percent-encoded
InlineLinkTo(tok, file) ==
  /\ tok.kind = "md"
  /\ tok.tgt \in {file.path, file.name, encodeURI(file.path), encodeURI(file.name)}

\* an embed whose target is the path, the name or the basename of the file
EmbedOf(tok, file) ==
  /\ tok.kind = "wiki"
  /\ tok.tgt \in {file.path, file.name, file.basename}

\* the token refers to the file in one of the forms of the rewriter, plain or
\* percent-encoded
Occurrence(tok, file) ==
  \/ InlineLinkTo(tok, file)
  \/ EmbedOf(tok, file)
  \/ tok.kind = "wiki" /\ tok.tgt \in {encodeURI(file.path), encodeURI(file.name)}

\* C18: replaceImageReference rewrites every inline link ![alt](target) whose
\* target is the path or the name of the file, plain or percent-encoded, to
\* ![alt](replacement) with the same alt, and reports a change; with no
\* occurrence of the file the text is as it was, setValue is not called and
\* the result is 'not changed'.
C18_InlineLinksRewritten ==
  ReplaceReturned =>
    /\ \A i \in 1..Len(arg.content) :
         InlineLinkTo(arg.content[i], arg.file) =>
           /\ ret.content[i] = Token("md", arg.content[i].alt, arg.replacementUrl)
           /\ ret.changed
    /\ (\A i \in 1..Len(arg.content) : ~Occurrence(arg.content[i], arg.file))
         => /\ ret.content = arg.content
            /\ ret.setValueCalls = 0
            /\ ~ret.changed

\* C19 as stated: for every embed ![[target]] or ![[target|alt]] whose target
\* is the path, the name or the basename of the file, the rewrite puts the
\* replacement in the place of the target and leaves the rest of the embed,
\* its alt text included, as it was.
C19_EmbedKeptAroundTarget ==
  ReplaceReturned =>
    \A i \in 1..Len(arg.content) :
      EmbedOf(arg.content[i], arg.file) =>
        ret.content[i] = Token("wiki", arg.content[i].alt, arg.replacementUrl)

\* C19, amended: every such embed becomes the inline link ![alt](replacement),
\* where alt is the text that followed the '|' of the embed, and is empty for
\* an embed without '|'.
C19_EmbedBecomesInlineLink ==
  ReplaceReturned =>
    \A i \in 1..Len(arg.content) :
      EmbedOf(arg.content[i], arg.file) =>
        /\ ret.content[i].kind = "md"
        /\ ret.content[i].tgt = arg.replacementUrl
        /\ arg.content[i].alt = <<>> => ret.content[i].alt = <<>>
        /\ arg.content[i].alt # <<>> => <<"|">> \o ret.content[i].alt = arg.content[i].alt
        /\ ret.changed /\ ret.setValueCalls = 1

C19_Witness ==
  /\ ReplaceReturned
  /\ Len(arg.content) = 2
  /\ arg.content[1] = Token("wiki", <<"|", "alt">>, arg.file.basename)
  /\ arg.content[2] = Token("wiki", <<>>, arg.file.path)
  /\ ret.content[1] = Token("md", <<"alt">>, arg.replacementUrl)
  /\ ret.content[2] = Token("md", <<>>, arg.replacementUrl)

\* C20: vault.delete is called for the source file only when
\* deleteSourceAfterUpload is set, the call has a URL, local copy is off or a
\* local file was made or found, and the path of that local file is not the
\* path of the source; no file leaves the vault in any other way.
C20_DeletedOnlyWhenSafe ==
  /\ [](\A i \in Slots :
          /\ att[i].deleteCalls <= 1
          /\ att[i].deleteCalls = 1 =>
               /\ settings.deleteSourceAfterUpload
               /\ att[i].uploadedUrl # 0
               /\ ~settings.localCopyEnabled \/ att[i].localFile # NoPath
               /\ att[i].localFile # att[i].file)
  /\ [][\A p \in DOMAIN vault :
          p \notin DOMAIN vault' =>
            \E i \in Slots : att[i].file = p /\ att[i].deleteCalls = 1]_vars

C20_Witness ==
  \E i \in Slots :
    /\ att[i].deleteCalls = 1
    /\ att[i].pc = "done"
    /\ att[i].file \notin DOMAIN vault
    /\ settings.localCopyEnabled
    /\ att[i].localFile \in DOMAIN vault

\* handler k calls processFileCreate in this step
CallsProcess(k) == hfc[k].pc = "process" /\ hfc'[k].pc = "await"

\* a call of processFileCreate has ended in its catch
SomeCaught == \E i \in Slots : att[i].caught # ""

\* C21: whichever awaited call throws (readBinary, the hashing, the cache,
\* upload, createFolder, createBinary, delete, the editor), no call of
\* processFileCreate rejects and handleFileCreate catches nothing from it; and
\* after a call that failed, the event for a new image at another path passes
\* the guards and is taken in as usual.
C21_NeverRejects ==
  /\ [](\A i \in Slots : ~att[i].rejected)
  /\ [](\A k \in Handlers :
          /\ hfc[k].pc \in {"idle", "import", "process", "await", "returned"}
          /\ hfc[k].slot # 0 => hfc[k].notes = <<>>
          /\ (hfc[k].pc = "returned" /\ hfc[k].slot # 0)
                => att[hfc[k].slot].pc \in {"done", "released"})
  /\ [][\A k \in Handlers :
          (/\ CallsProcess(k)
           /\ SomeCaught
           /\ hfc[k].file.ext \in IMAGE_EXTENSIONS
           /\ now - hfc[k].ctime <= StartupAgeMs
           /\ \A i \in Slots : att[i].file # hfc[k].file /\ hfc[k].file \notin att[i].creates)
            => /\ hfc'[k].slot = nAtt + 1
               /\ att'[nAtt + 1].file = hfc[k].file
               /\ att'[nAtt + 1].pc = (IF editor = "throws" THEN "done" ELSE "read")]_vars

C21_Witness ==
  \E i, j \in Slots :
    /\ i < j
    /\ att[i].caught = "computeSha1"
    /\ att[j].file # att[i].file
    /\ att[j].pc = "done" /\ att[j].caught = ""
    /\ att[j].uploadedUrl # 0 /\ UrlRef(att[j].uploadedUrl) \in doc
    /\ att[j].localFile \in DOMAIN vault
    /\ \A k \in Handlers : hfc[k].pc = "returned"

---------------------------------------------------------------------------
\* the calls of handleFileCreate that called ensureUploadPreset, and those that
\* showed the warning of auto-create, after e calls of resetAutoCreatePresetState
\* and before the next
AttemptsIn(e) == {k \in Handlers : hfc[k].ensureCalls > 0 /\ hfc[k].epoch = e}
WarningsIn(e) == {k \in Handlers : hfc[k].warnedIn = e}

\* C22: between two calls of resetAutoCreatePresetState, however the
\* file-created events overlap, ensureUploadPreset is called at most once
\* (so never again after a call that failed) and the warning is shown at most
\* once
C22_OneAttemptPerSession ==
  /\ \A k \in Handlers : hfc[k].ensureCalls <= 1
  /\ \A e \in 0..presetResets :
       /\ Cardinality(AttemptsIn(e)) <= 1
       /\ Cardinality(WarningsIn(e)) <= 1
  /\ \A k \in Handlers :
       /\ Len(SelectSeq(hfc[k].notes, LAMBDA n : n = "presetWarning")) <= 1
       /\ hfc[k].warnedIn # -1 <=> \E n \in 1..Len(hfc[k].notes) : hfc[k].notes[n] = "presetWarning"

\* an attempt has failed with a warning, and a later event, still before any
\* reset, has gone past tryAutoCreatePresetOnce without an attempt, although
\* the settings still ask for one; the image is uploaded with the signed
\* credentials
C22_Witness ==
  /\ presetResets = 0
  /\ \E k, j \in Handlers :
       /\ k # j
       /\ hfc[k].ensureCalls = 1 /\ hfc[k].warnedIn = 0
       /\ hfc[j].pc = "returned" /\ hfc[j].ensureCalls = 0 /\ hfc[j].notes = <<>>
       /\ hfc[j].slot # 0 /\ att[hfc[j].slot].uploadedUrl # 0
  /\ AutoCreateWantedAlways /\ triedAutoCreatePreset
---------------------------------------------------------------------------
\* C23: with auto-upload off or no cloud name, and the local copy off or no
\* folder, no file-created event leads to an upload, a write of the cache, the
\* creation of a file or folder, an edit of the note or the deletion of a file
\* (nor to a call of ensureUploadPreset or a notification of processFileCreate)
C23_DefaultsDoNothing ==
  /\ \A i \in Slots :
       /\ att[i].uploadCalls = 0 /\ att[i].creates = {} /\ att[i].edits = 0
       /\ att[i].deleteCalls = 0 /\ att[i].notes = <<>>
       /\ att[i].pc \in {"idle", "sleep", "read", "done"}
       /\ att[i].uploadedUrl = 0 /\ att[i].localFile = NoPath
  /\ \A k \in Handlers : hfc[k].ensureCalls = 0
  /\ vault = Dropped(StartFiles)
  /\ doc = DefaultDoc
  /\ cacheFile = NoFile /\ tmpFile = NoFile
  /\ pluginCreatedFiles = {} /\ urlSeq = 0

\* auto-upload is on with credentials, a cache path and the deletion of the
\* source, only the cloud name is missing; the local copy is on, only the
\* folder is missing: an image the note names has been read and hashed, and
\* its handler has returned
C23_Witness ==
  /\ settings.autoUploadOnFileAdd /\ settings.uploadPreset /\ settings.cacheFilePath
  /\ settings.deleteSourceAfterUpload /\ settings.localCopyEnabled
  /\ \E k \in Handlers :
       /\ hfc[k].pc = "returned" /\ hfc[k].slot # 0
       /\ att[hfc[k].slot].reads = 1 /\ att[hfc[k].slot].fileHash # ""
       /\ att[hfc[k].slot].pc = "done"
---------------------------------------------------------------------------
\* C24: a path that is in the in-flight set is removed from it later on,
\* however the call ends: no reference in the note, an upload, an upload that
\* fails, an exception (after which a new event for the path passes the
\* re-entry test again)
C24_PathReleased ==
  \A p \in DOMAIN LoopFiles : (p \in uploadingPaths) ~> (p \notin uploadingPaths)

\* a call for a path has ended with an exception, its path has been released,
\* and a second call for the same path has been admitted
C24_Witness ==
  \E i, j \in Slots :
    /\ i < j /\ att[i].file = att[j].file
    /\ att[i].pc = "released" /\ att[i].caught # ""
    /\ att[j].pc = "uploading"
    /\ att[j].file \in uploadingPaths
---------------------------------------------------------------------------
\* the call has ended, without an exception
Ended(i) == att[i].pc \in {"done", "released"} /\ att[i].caught = ""

\* C25: when getEntry finds an entry for the hash of the file, the call makes
\* no upload, whatever the credentials and the size limit are, and the URL
\* that replaces the references and decides on the deletion of the source is
\* the URL of the entry
C25_CacheHitUsed ==
  /\ [][\A i \in Slots :
          att[i].pc = "cacheGet" /\ att'[i].pc # "cacheGet"
            /\ att[i].fileHash \in DOMAIN readCache
          => /\ att'[i].fromCache
             /\ att'[i].uploadedUrl = readCache[att[i].fileHash]
             /\ att'[i].notes = att[i].notes]_vars
  /\ [](\A i \in Slots :
          att[i].fromCache
          => /\ att[i].uploadCalls = 0 /\ att[i].newUrl = 0
             /\ att[i].pc \notin {"uploading", "addRead", "wTmp"}
             /\ Ended(i) /\ att[i].uploadedUrl # 0
                => /\ UrlRef(att[i].uploadedUrl) \in doc
                   /\ att[i].deleteCalls =
                        IF DeleteSource(att[i].uploadedUrl, att[i].localFile, att[i].file)
                        THEN 1 ELSE 0
             /\ Ended(i) /\ att[i].uploadedUrl = 0 => att[i].deleteCalls = 0)

\* w is larger than the size limit and there is nothing to upload with: its
\* call has found the entry of the cache, has put the URL of the entry into the
\* note and has deleted w
C25_Witness ==
  /\ ~settings.uploadPreset /\ ~settings.signed /\ settings.maxAutoUploadSizeMB = 1
  /\ \E i \in Slots :
       /\ att[i].file = P(Notes, "w", "png") /\ att[i].fromCache /\ Ended(i)
       /\ ExceedsSizeLimit(settings.maxAutoUploadSizeMB, ByteLength(StartFiles[att[i].file]))
       /\ ~Exists(att[i].file)
       /\ att[i].uploadedUrl = CachedUrl /\ UrlRef(CachedUrl) \in doc
       /\ att[i].deleteCalls = 1 /\ att[i].uploadCalls = 0
---------------------------------------------------------------------------
\* the call has read the file and has gone past handleUpload without a call of
\* upload and without an entry of the cache: the upload was skipped
UploadSkipped(a) ==
  /\ a.reads = 1 /\ a.caught = "" /\ a.uploadCalls = 0 /\ ~a.fromCache
  /\ settings.autoUploadOnFileAdd /\ settings.cloudName

\* C26: when the upload is skipped, for the size of the file or for want of
\* an upload method, and the local copy is on with a valid folder, the call
\* ends with a copy of the image in the folder, and the references of the
\* note to the image lead to that copy; the image itself is kept
C26_SkipStillCopies ==
  [][\A i \in Slots :
       Active(i) /\ ~Active(i)' /\ UploadSkipped(att'[i])
       => LET a == att'[i]
          IN /\ a.uploadedUrl = 0
             /\ a.localFile # NoPath
             /\ a.localFile \in DOMAIN vault'
             /\ a.localFile.dir = sanitizeFolderPath(settings.localCopyFolder).path
             /\ vault'[a.localFile].content = vault'[a.file].content
             /\ a.file # a.localFile /\ PathRef("md", a.file) \in doc
                  => /\ PathRef("md", a.localFile) \in doc'
                     /\ PathRef("md", a.file) \notin doc'
             /\ a.deleteCalls = 0]_vars

\* w is larger than the size limit: its call has shown the notice, has made
\* no upload and has written w into the folder, under a name with a timestamp
\* as the name of w is taken there, and the note refers to that copy;
\* nothing can be uploaded in another session, where the warning is shown and
\* x is copied all the same
C26_Witness ==
  \E i \in Slots :
    /\ att[i].pc = "done" /\ UploadSkipped(att[i])
    /\ att[i].creates = {att[i].localFile}
    /\ PathRef("md", att[i].localFile) \in doc
    /\ \/ /\ att[i].notes = <<"size">> /\ att[i].localFile.ts # 0
          /\ att[i].file = P(Notes, "w", "png")
       \/ /\ att[i].notes = <<"missing">> /\ att[i].file = P(Notes, "x", "png")
          /\ settings.deleteSourceAfterUpload
---------------------------------------------------------------------------
\* C27: when sanitizeFolderPath turns the local-copy folder down, the call
\* still goes on: once it has ended, the folder that the lenient normalization
\* gives holds a copy of the image
C27_LenientFolderCopies ==
  \A i \in Slots :
    /\ Ended(i) /\ att[i].reads = 1
    /\ settings.localCopyEnabled
    /\ ~sanitizeFolderPath(settings.localCopyFolder).ok
    => Duplicates(LenientFolder(settings.localCopyFolder), att[i].fileHash) # {}
---------------------------------------------------------------------------
\* the notifications of the call that tell of an upload that has thrown
UploadFailures(a) ==
  SelectSeq(a.notes, LAMBDA n : \E m \in UploadErrors : n = FailNote(m))

\* C28: when uploader.upload throws, the call has called upload once, tells
\* the user of the failure with the message of the error, has no URL, writes
\* nothing into the cache, goes on to the local copy, and does not delete the
\* source
C28_UploadFailureHandled ==
  /\ [][\A i \in Slots :
          att[i].pc = "uploading" /\ UploadFailures(att'[i]) # <<>>
          => /\ \E m \in UploadErrors : att'[i].notes = Append(att[i].notes, FailNote(m))
             /\ att'[i].pc = "scan"
             /\ cacheFile' = cacheFile /\ tmpFile' = tmpFile
             /\ vault' = vault /\ doc' = doc]_vars
  /\ [](\A i \in Slots :
          UploadFailures(att[i]) # <<>>
          => /\ Len(UploadFailures(att[i])) = 1
             /\ att[i].uploadCalls = 1
             /\ att[i].uploadedUrl = 0 /\ att[i].newUrl = 0 /\ att[i].mem = EmptyMap
             /\ att[i].pc \in {"scan", "destCheck", "creating", "done", "released"}
             /\ att[i].deleteCalls = 0
             /\ Exists(att[i].file))

\* the upload of x has thrown, with the deletion of the source asked for: the
\* call has ended with one call of upload, x is copied into the folder and
\* the note refers to the copy, x is still there and the cache has no entry
\* for its bytes
C28_Witness ==
  /\ settings.deleteSourceAfterUpload
  /\ \E i \in Slots :
       /\ att[i].file = P(Notes, "x", "png")
       /\ UploadFailures(att[i]) = <<FailNote(PresetNotUnsigned)>>
       /\ Ended(i) /\ att[i].uploadCalls = 1
       /\ att[i].localFile = P(Assets, "x", "png") /\ Exists(att[i].localFile)
       /\ PathRef("md", att[i].localFile) \in doc
       /\ Exists(att[i].file)
       /\ att[i].fileHash \notin DOMAIN readCache
---------------------------------------------------------------------------
\* the notifications of the call about an upload preset that does not allow
\* unsigned uploads
PresetFailures(a) == SelectSeq(a.notes, LAMBDA n : n = FailNote(PresetNotUnsigned))

\* C29: in one session, the upload failures that come from the configuration
\* of the upload preset are notified once: the first of them
C29_PresetFailureOnce ==
  /\ \A i \in Slots : Len(PresetFailures(att[i])) <= 1
  /\ \A i, j \in Slots :
       i # j => PresetFailures(att[i]) = <<>> \/ PresetFailures(att[j]) = <<>>

---------------------------------------------------------------------------
\* C30: a call that fails with an exception thrown outside the upload
\* (readBinary fails, no SHA-1 implementation is available) leads to exactly
\* one notification, from processFileCreate or from handleFileCreate
C30_OneNoticePerException ==
  \A k \in Handlers :
    /\ hfc[k].pc = "returned" /\ hfc[k].slot # 0
    /\ att[hfc[k].slot].caught \in {"readBinary", "computeSha1"}
    => Len(att[hfc[k].slot].notes) + Len(hfc[k].notes) = 1
---------------------------------------------------------------------------
\* the notifications the call has made through notify (the Notice of
\* writeCache does not go through notify), and those of them that tell of an
\* outcome: a success, a reason to skip, a failure
Notified(a) == SelectSeq(a.notes, LAMBDA n : n # "cacheError")
Outcomes(a) == SelectSeq(Notified(a), LAMBDA n : n # "start")

\* C31, as stated: a call of processFileCreate notifies at most once
C31_OneNotification == \A i \in Slots : Len(Notified(att[i])) <= 1

\* C31, amended: a call notifies at most one outcome (success, skip or
\* failure); a call that reaches uploader.upload has notified the start of the
\* upload before, and that is all: two notifications at most
C31_OneOutcomeNotified ==
  \A i \in Slots :
    /\ Len(Outcomes(att[i])) <= 1
    /\ Len(Notified(att[i])) <= 2
    /\ Len(Notified(att[i])) = 2 => Notified(att[i])[1] = "start"
    /\ att[i].uploadCalls > 0 <=> Notified(att[i]) # <<>> /\ Notified(att[i])[1] = "start"
    /\ att[i].fromCache => Notified(att[i]) = <<>>
    /\ Ended(i) /\ att[i].reads = 1 /\ ~att[i].fromCache /\ Outcomes(att[i]) = <<>>
         => shownMissingAutoUploadWarning /\ ~settings.uploadPreset /\ ~settings.signed

\* a session in which one call has ended with the start and the success of
\* its upload notified, and another with the size of its file
C31_Witness ==
  \E i, j \in Slots :
    /\ Ended(i) /\ att[i].notes = <<"start", "ok">> /\ att[i].uploadedUrl # 0
    /\ Ended(j) /\ att[j].notes = <<"size">>
---------------------------------------------------------------------------
\* the step in which call i goes through the reference replacement: it has
\* read the file and leaves the upload and the local copy behind, with no
\* exception
Replaces(i) ==
  /\ Active(i) /\ att[i].pc # "deleting"
  /\ att'[i].pc \in {"deleting", "done"}
  /\ att'[i].reads = 1 /\ att'[i].caught = ""

\* C32: the references are replaced as the call has come out.  With a URL,
\* what referred to the file refers to the URL, and so does what referred to
\* the local copy; with a local copy and no URL, what referred to the file
\* refers to the copy; with neither, the note is left as it is.  Nothing else
\* of the note changes.
C32_ReplacementFollowsOutcome ==
  [][\A i \in Slots :
       Replaces(i)
       => LET a == att'[i]
              url == a.uploadedUrl
              lf == a.localFile
              new == IF url # 0 THEN UrlRef(url) ELSE PathRef("md", lf)
              hit(t) == \/ RegexMatches(t, a.file)
                        \/ url # 0 /\ lf # NoPath /\ RegexMatches(t, lf)
          IN IF url = 0 /\ lf = NoPath
             THEN doc' = doc /\ a.edits = 0
             ELSE /\ \A t \in doc : IF hit(t) THEN new \in doc' ELSE t \in doc'
                  /\ \A t \in doc' : t = new \/ (t \in doc /\ ~hit(t))
                  /\ (\E t \in doc : hit(t)) /\ new \notin doc => a.edits >= 1]_vars

\* two calls have replaced the references: that for x with the URL of its
\* upload, a local copy made; that for w, whose entry of the cache has no
\* URL, with the path of its local copy
C32_Witness ==
  \E i, j \in Slots :
    /\ Ended(i) /\ att[i].file = P(Notes, "x", "png")
    /\ att[i].uploadedUrl # 0 /\ att[i].localFile # NoPath /\ ~att[i].fromCache
    /\ UrlRef(att[i].uploadedUrl) \in doc /\ ~Referenced(doc, att[i].file)
    /\ att[i].edits = 1
    /\ Ended(j) /\ att[j].file = P(Notes, "w", "png")
    /\ att[j].uploadedUrl = 0 /\ att[j].fromCache /\ att[j].localFile # NoPath
    /\ PathRef("md", att[j].localFile) \in doc
    /\ PathRef("md", att[j].file) \notin doc /\ att[j].edits = 1
---------------------------------------------------------------------------
\* the step in which call i, its file read, leaves the upload and the local
\* copy behind and returns or goes on to delete the source
Finishes(i) ==
  /\ Active(i) /\ att[i].pc # "deleting" /\ att[i].reads = 1
  /\ att'[i].pc \in {"deleting", "done"}

\* C33: with no note open, or with an editor that has no setValue function,
\* the reference replacement changes nothing, throws nothing and counts no
\* edit, and the call goes on: it deletes the source if that is what the
\* settings and its outcome say, and returns otherwise.
C33_NoEditorNoChange ==
  [][\A i \in Slots :
       Finishes(i) /\ editor \in {"none", "readonly"}
       => LET a == att'[i]
          IN /\ doc' = doc
             /\ a.edits = att[i].edits
             /\ a.caught = ""
             /\ a.pc = IF DeleteSource(a.uploadedUrl, a.localFile, a.file)
                       THEN "deleting" ELSE "done"]_vars

\* a call has uploaded x and deleted it with no editor to write to: the note
\* refers to x as before
C33_Witness ==
  \E i \in Slots :
    /\ Ended(i) /\ att[i].file = P(Notes, "x", "png")
    /\ att[i].uploadedUrl # 0 /\ att[i].edits = 0 /\ att[i].deleteCalls = 1
    /\ editor \in {"none", "readonly"}
    /\ ~Exists(att[i].file)
    /\ PathRef("md", att[i].file) \in doc

---------------------------------------------------------------------------
\* C34: the local-copy step never has createBinary at work on a path that
\* exists: a name that is taken by other bytes gets a timestamp, and the file
\* that holds the name is left as it is.
C34_CreatesOnFreePath ==
  \A i \in Slots : att[i].pc = "creating" => ~Exists(att[i].dest)
---------------------------------------------------------------------------
\* the step in which tryAutoCreatePresetOnce, having called
\* ensureUploadPreset, returns with no preset made, in a session in which no
\* other call of it has got that far
AttemptFails(k) ==
  /\ hfc[k].pc \in {"ensure", "save"} /\ hfc'[k].pc = "process"
  /\ \A n \in 1..Len(hfc'[k].notes) : hfc'[k].notes[n] # "presetCreated"
  /\ \A j \in Handlers \ {k} : hfc[j].ensureCalls = 0

\* C35: tryAutoCreatePresetOnce that fails leaves settings.uploadPreset as it
\* was, which is unset, and handleFileCreate goes on to processFileCreate.
C35_FailureKeepsPreset ==
  [][\A k \in Handlers : AttemptFails(k) => ~settings'.uploadPreset]_vars
---------------------------------------------------------------------------
\* the calls that have returned from addEntry: they have uploaded with the
\* shared cache on
Writers ==
  {i \in Slots : /\ settings.cacheFilePath /\ ~Active(i)
                  /\ att[i].uploadedUrl # 0 /\ ~att[i].fromCache}

\* C36: when two or more calls have written the cache and all have returned,
\* the cache file exists and holds the map of one of them, the entry of that
\* call in it, and the temporary file is gone.
C36_WritersLeaveOneMap ==
  (Quiet /\ Cardinality(Writers) >= 2) =>
    /\ cacheFile.ex
    /\ \E i \in Writers :
         /\ att[i].fileHash \in DOMAIN cacheFile.map
         /\ cacheFile.map[att[i].fileHash] = att[i].uploadedUrl
    /\ ~tmpFile.ex
---------------------------------------------------------------------------
\* C37: when two or more calls have added their entries to the cache and all
\* have returned, the cache file, if it is there, still holds every entry it
\* held before them.
C37_EarlierEntriesKept ==
  (Quiet /\ Cardinality(Writers) >= 2 /\ cacheFile.ex) =>
    \A h \in DOMAIN EarlierEntries :
      h \in DOMAIN cacheFile.map /\ cacheFile.map[h] = EarlierEntries[h]
---------------------------------------------------------------------------
\* C38: a call that deletes its source file has rewritten every reference
\* that let it pass the reference check: as vault.delete is called, the note
\* names the file in none of the forms the check accepts.
C38_NoReferenceAtDeletion ==
  \A i \in Slots : att[i].pc = "deleting" => ~Referenced(doc, att[i].file)
---------------------------------------------------------------------------
\* C39: replaceImageReference leaves alone what points at another file: an
\* inline link or an embed whose target is a file with a longer name, which
\* has the name of the asset in it, is after the call what it was before.
C39_OtherFilesKept ==
  ReplaceReturned =>
    \A i \in 1..Len(arg.content) :
      arg.content[i].tgt = NearTarget => ret.content[i] = arg.content[i]
---------------------------------------------------------------------------
\* the path leaves the vault: it has a '..' segment, or it starts at a root,
\* which is a separator or a drive letter
Outside(s) ==
  \/ HasParentSegment(s)
  \/ Rooted(s)
  \/ Len(s) >= 2 /\ s[1] \in Letters /\ s[2] = ":"

\* C40: whatever the local-copy folder of the settings, no call has called
\* createFolder or createBinary with a path that has a '..' segment or that
\* starts at a root.
C40_NoPathOutsideVault ==
  \A i \in Slots :
    /\ \A f \in att[i].createdFolders : ~Outside(f)
    /\ \A p \in att[i].creates : ~Outside(p.dir)
====
